---- MODULE Spec2Model ----
(***************************************************************************)
(* A model of the planning core of the feature store:                      *)
(*   - JobFactory.facts, the grouping of per-source requests               *)
(*     (src/aladdin/job_factory.py, src/aladdin/local/source.py);          *)
(*   - FactPsqlJob.build_request, the point-in-time SQL planner, for one   *)
(*     request and for several; FullExtractPsqlJob and DateRangePsqlJob    *)
(*     (src/aligned/psql/jobs.py);                                         *)
(*   - the feature DSL compiler (src/aligned/compiler/feature_factory.py): *)
(*     the graph of nodes, and one node with its constraints, its Feature  *)
(*     and its references;                                                 *)
(*   - the chaining calls of a Target (same file);                         *)
(*   - literal values and their registry                                   *)
(*     (src/aligned/schemas/literal_value.py);                             *)
(*   - EventTrigger.check_pandas and check_polars                          *)
(*     (src/aligned/schemas/model.py);                                     *)
(*   - the routes of the HTTP server (src/aladdin/server.py).              *)
(* Each component has its own specification; the variables of the other    *)
(* components stay at their initial values.                                *)
(***************************************************************************)
EXTENDS Integers, Sequences, FiniteSets, TLC

VARIABLES
    \* ---- JobFactory.facts ----
    kind,              \* self.source.type_name of the factory
    facts,             \* argument facts: entity name -> list of values
    sources,           \* list(sources.keys()): the iteration order of the mapping
    requests,          \* sources[data_source]: the request of each source
    pc,                \* position inside facts(): loop, jobs, done, raised
    idx,               \* index of the for loop (line 27) / of the comprehension (line 36)
    grouped_requests,  \* dict key -> dict source -> request, in insertion order
    grouped_facts,     \* dict key -> dict entity name -> list
    jobs,              \* the jobs returned by _facts so far
    result,            \* the CombineFactualJob returned, or NoJob
    calls,             \* how many times facts() was called on this input
    previous,          \* the outcome of the first call, once a second one started
    \* ---- feature DSL ----
    nodes,             \* the FeatureFactory objects allocated so far, by identity
    compiled,          \* what compile() produced, while it is the latest operation
    retyped,           \* how many calls were given an existing node as as_dtype
    \* ---- FactPsqlJob ----
    fact_rows,         \* self.facts, row by row: entity value and event timestamp
    psql_request,      \* the request of self.requests
    source_table,      \* the rows of the source table in the database
    query,             \* what build_request() rendered: values and tables
    cte_rows,          \* the rows of <location>_cte when the database ran the query
    psql_pc,           \* start, built, executed
    \* ---- one FeatureFactory, its Target and what was produced from them ----
    factory,           \* the attributes of the FeatureFactory object
    set_object,        \* the content of the set object allocated by _add_constraint
    target,            \* the attributes of Target(feature=factory)
    reference,         \* what the latest feature_referance() call ended with
    ir,                \* the Feature returned by the latest feature() call
    \* ---- literal values ----
    py_value,          \* the Python value handed to from_value
    literal,           \* what from_value returned or raised
    serialized,        \* the dict the literal was serialized to
    lit_pc,            \* start, made, raised, serialized
    _shared,           \* SupportedLiteralValues._shared
    threads,           \* the callers of shared() and _deserialize: position and result
    \* ---- FactPsqlJob over several requests ----
    plan_facts,        \* self.facts: a literal table or a PostgreSqlJob, and its row count
    plan_sources,      \* list(self.sources.keys()): the names of the locations
    plan_requests,     \* self.requests: the name of the location of each request
    plan_matches,      \* request -> row_id -> how many source rows satisfy the join
    plan_query,        \* the query rendered: the CTEs defined and the CTEs joined
    plan_result,       \* what the database answered: rows for each row_id, or an error
    plan_pc,           \* start, built, executed
    \* ---- FullExtractPsqlJob, DateRangePsqlJob and the selects of FactPsqlJob ----
    extract_job,       \* the class of the job, its limit, start_date and end_date
    extract_request,   \* the request: its feature and entity names, its event timestamp
    extract_mapping,   \* the source: logical name -> physical column
    extract_table,     \* the timestamps of the rows of the source table
    extract_locals,    \* the local variables of build_request(): columns, limit_query
    extract_returned,  \* what build_request() returned or raised
    extract_psql_job,  \* the PostgreSqlJob made by psql_job()
    extract_rows,      \* the rows the database answered
    extract_pc,        \* start, returned, raised, selected, job, executed
    \* ---- EventTrigger ----
    trigger_event,     \* self.event: whether it is a SinkableDataSource
    trigger_df,        \* the frame handed to check_pandas and to check_polars
    trigger_stream,    \* the jobs written to the event stream, the caller of each
    trigger_done,      \* the checks that have returned
    \* ---- FastAPIServer.model_path ----
    server_requests,   \* feature_request.needed_requests of the model
    server_routes,     \* what model_path() left: the routes and what they close over
    server_last,       \* the latest POST: its path and the keys of its body
    server_response,   \* the status code and the detail of the latest response
    server_calls,      \* how often features_for() and write() were called
    server_posts,      \* how many POSTs were handled
    \* ---- Target chaining ----
    chain_target,      \* the attributes of the Target the latest call returned
    chain_carried,     \* the _name and _location given to a Target of the chain
    chain_calls,       \* the calls that returned a Target, in order
    chain_error        \* the exception of the latest call, if it raised

factsVars == <<kind, facts, sources, requests, pc, idx, grouped_requests,
               grouped_facts, jobs, result, calls, previous>>

dslVars == <<nodes, compiled, retyped>>

psqlVars == <<fact_rows, psql_request, source_table, query, cte_rows, psql_pc>>

nodeVars == <<factory, set_object, target, reference, ir>>

litVars == <<py_value, literal, serialized, lit_pc, _shared, threads>>

planVars == <<plan_facts, plan_sources, plan_requests, plan_matches, plan_query,
              plan_result, plan_pc>>

extractVars == <<extract_job, extract_request, extract_mapping, extract_table,
                 extract_locals, extract_returned, extract_psql_job, extract_rows,
                 extract_pc>>

triggerVars == <<trigger_event, trigger_df, trigger_stream, trigger_done>>

serverVars == <<server_requests, server_routes, server_last, server_response,
                server_calls, server_posts>>

chainVars == <<chain_target, chain_carried, chain_calls, chain_error>>

vars == <<factsVars, dslVars, psqlVars, nodeVars, litVars, planVars,
          extractVars, triggerVars, serverVars, chainVars>>

-----------------------------------------------------------------------------
(* Bounds of the model *)

MaxSources == 3
MaxOps == 3
MaxRows == 2
MaxConstraints == 2
MaxSize == 3
MaxThreads == 2

-----------------------------------------------------------------------------
(* Generic helpers *)

Range(s) == {s[i] : i \in 1..Len(s)}

EmptyDict == [x \in {} |-> 0]

\* the sequences of n distinct elements of S
RECURSIVE InjSeqs(_, _)
InjSeqs(S, n) ==
    IF n = 0 THEN {<<>>}
    ELSE UNION {{Append(q, x) : x \in S \ Range(q)} : q \in InjSeqs(S, n - 1)}

-----------------------------------------------------------------------------
(* Sources: src/aladdin/local/source.py *)

\* CsvFileSource(path, mapping_keys, type_name): a dataclass, equal when all
\* fields are equal; type_name is a field with default 'csv'
CsvFileSources ==
    {[impl |-> "CsvFileSource", type_name |-> "csv", path |-> "a", mapping_keys |-> 0],
     [impl |-> "CsvFileSource", type_name |-> "csv", path |-> "a", mapping_keys |-> 1],
     [impl |-> "CsvFileSource", type_name |-> "csv", path |-> "b", mapping_keys |-> 0],
     [impl |-> "CsvFileSource", type_name |-> "psql", path |-> "a", mapping_keys |-> 0]}

\* sources whose job_group_key is the one of LiteralReference, handed to the
\* csv factory (path stands for the frame held)
LiteralReferences ==
    {[impl |-> "LiteralReference", type_name |-> "csv", path |-> "df1", mapping_keys |-> 0],
     [impl |-> "LiteralReference", type_name |-> "csv", path |-> "df2", mapping_keys |-> 0]}

\* the values uuid4() can return
Uuids == {"u1", "u2"}

\* job_group_key(): the values one call can return.
\* CsvFileSource: f'{self.type_name}/{self.path}'; LiteralReference: str(uuid4())
job_group_key(data_source) ==
    IF data_source.impl = "CsvFileSource"
    THEN {data_source.type_name \o "/" \o data_source.path}
    ELSE Uuids

-----------------------------------------------------------------------------
(* JobFactory.facts: src/aladdin/job_factory.py *)

\* request.entity_names of the requests handed in
RequestChoices == {{"e1"}, {"e2"}, {"e1", "e2"}}

\* fact tables handed in
FactChoices ==
    {[e \in {"e1"} |-> <<1, 2>>],
     [e \in {"e1", "e2"} |-> IF e = "e1" THEN <<1, 2>> ELSE <<3, 4>>],
     [e \in {"e1", "e2"} |-> IF e = "e1" THEN <<3, 4>> ELSE <<1, 2>>]}

NoJob == [jobs |-> <<>>, requested_features |-> {}, combined_requests |-> <<>>,
          returned |-> FALSE]

NoOutcome == [status |-> "none", groups |-> {}]

\* line 28: data_source.type_name != self.source.type_name -> continue
TypeMatchesAll(data_source, k) == TRUE
TypeMatches(data_source, k) == data_source.type_name = k

\* line 33: facts[entity_name] raises KeyError for an entity that is no column
MissingEntity(request, f) == \E entity_name \in request : entity_name \notin DOMAIN f

\* line 31: grouped_requests[key][data_source] = request (defaultdict(dict))
AddRequestOverwrite(gr, key, data_source, request) ==
    IF \E i \in 1..Len(gr) : gr[i].key = key
    THEN [i \in 1..Len(gr) |->
            IF gr[i].key = key
            THEN [key |-> key,
                  requests |-> <<[source |-> data_source, request |-> request]>>]
            ELSE gr[i]]
    ELSE Append(gr, [key |-> key,
                     requests |-> <<[source |-> data_source, request |-> request]>>])
AddRequest(gr, key, data_source, request) ==
    IF \E i \in 1..Len(gr) : gr[i].key = key
    THEN [i \in 1..Len(gr) |->
            IF gr[i].key = key
            THEN [key |-> key,
                  requests |-> Append(gr[i].requests,
                                      [source |-> data_source, request |-> request])]
            ELSE gr[i]]
    ELSE Append(gr, [key |-> key,
                     requests |-> <<[source |-> data_source, request |-> request]>>])

\* lines 32-33: for entity_name in request.entity_names:
\*     grouped_facts[data_source.job_group_key()][entity_name] = facts[entity_name]
\* keyOf[entity_name] is the key the call of that iteration returned
AddFactsAll(gf, keyOf, request, f) ==
    LET keys == {keyOf[e] : e \in request}
    IN [k \in DOMAIN gf \cup keys |-> IF k \in keys THEN f ELSE gf[k]]
AddFacts(gf, keyOf, request, f) ==
    LET keys == {keyOf[e] : e \in request}
        old(k) == IF k \in DOMAIN gf THEN gf[k] ELSE EmptyDict
        new(k) == {e \in request : keyOf[e] = k}
    IN [k \in DOMAIN gf \cup keys |->
          [e \in DOMAIN old(k) \cup new(k) |->
             IF e \in new(k) THEN f[e] ELSE old(k)[e]]]

\* line 37: grouped_facts[job_key] of a defaultdict(dict)
GroupFacts(gf, job_key) == IF job_key \in DOMAIN gf THEN gf[job_key] ELSE EmptyDict

\* lines 36-39: the arguments of the _facts calls, one per item of grouped_requests
JobArgsPerSource(gr, gf) ==
    LET RECURSIVE flat(_)
        flat(i) ==
            IF i > Len(gr) THEN <<>>
            ELSE [j \in 1..Len(gr[i].requests) |->
                    [facts |-> GroupFacts(gf, gr[i].key),
                     requests |-> <<gr[i].requests[j]>>]] \o flat(i + 1)
    IN flat(1)
JobArgs(gr, gf) ==
    [i \in 1..Len(gr) |->
        [facts |-> GroupFacts(gf, gr[i].key), requests |-> gr[i].requests]]

\* a call of facts(): the arguments are drawn from the universe of sources
FactsStart(universe) ==
    /\ kind = "csv"
    /\ \E n \in 1..MaxSources : \E q \in InjSeqs(universe, n) :
         /\ sources = q
         /\ requests \in [Range(q) -> RequestChoices]
    /\ facts \in FactChoices
    /\ pc = "loop"
    /\ idx = 1
    /\ grouped_requests = <<>>
    /\ grouped_facts = EmptyDict
    /\ jobs = <<>>
    /\ result = NoJob
    /\ calls = 1
    /\ previous = NoOutcome

\* line 28-29: a source of another kind is skipped
FactsSkip ==
    /\ pc = "loop" /\ idx <= Len(sources)
    /\ ~TypeMatches(sources[idx], kind)
    /\ idx' = idx + 1
    /\ UNCHANGED <<kind, facts, sources, requests, pc, grouped_requests,
                   grouped_facts, jobs, result, calls, previous>>
    /\ UNCHANGED <<dslVars, psqlVars, nodeVars, litVars, planVars, extractVars,
                   triggerVars, serverVars, chainVars>>

\* lines 30-33, an entity of the request is no column of facts: KeyError
FactsRaise ==
    /\ pc = "loop" /\ idx <= Len(sources)
    /\ TypeMatches(sources[idx], kind)
    /\ MissingEntity(requests[sources[idx]], facts)
    /\ pc' = "raised"
    /\ UNCHANGED <<kind, facts, sources, requests, idx, grouped_requests,
                   grouped_facts, jobs, result, calls, previous>>
    /\ UNCHANGED <<dslVars, psqlVars, nodeVars, litVars, planVars, extractVars,
                   triggerVars, serverVars, chainVars>>

\* lines 30-33, one iteration of the loop over the sources
FactsGroup ==
    /\ pc = "loop" /\ idx <= Len(sources)
    /\ TypeMatches(sources[idx], kind)
    /\ ~MissingEntity(requests[sources[idx]], facts)
    /\ LET data_source == sources[idx]
           request == requests[data_source]
       IN \E key \in job_group_key(data_source) :
          \E keyOf \in [request -> job_group_key(data_source)] :
            /\ grouped_requests' = AddRequest(grouped_requests, key, data_source, request)
            /\ grouped_facts' = AddFacts(grouped_facts, keyOf, request, facts)
    /\ idx' = idx + 1
    /\ UNCHANGED <<kind, facts, sources, requests, pc, jobs, result, calls, previous>>
    /\ UNCHANGED <<dslVars, psqlVars, nodeVars, litVars, planVars, extractVars,
                   triggerVars, serverVars, chainVars>>

\* the loop is over: the list comprehension of lines 36-39 starts
FactsLoopEnd ==
    /\ pc = "loop" /\ idx > Len(sources)
    /\ pc' = "jobs"
    /\ idx' = 1
    /\ UNCHANGED <<kind, facts, sources, requests, grouped_requests,
                   grouped_facts, jobs, result, calls, previous>>
    /\ UNCHANGED <<dslVars, psqlVars, nodeVars, litVars, planVars, extractVars,
                   triggerVars, serverVars, chainVars>>

\* line 37: one call of self._facts(facts=..., requests=...); the job holds
\* the arguments it was built from
FactsJob ==
    /\ pc = "jobs" /\ idx <= Len(JobArgs(grouped_requests, grouped_facts))
    /\ jobs' = Append(jobs, JobArgs(grouped_requests, grouped_facts)[idx])
    /\ idx' = idx + 1
    /\ UNCHANGED <<kind, facts, sources, requests, pc, grouped_requests,
                   grouped_facts, result, calls, previous>>
    /\ UNCHANGED <<dslVars, psqlVars, nodeVars, litVars, planVars, extractVars,
                   triggerVars, serverVars, chainVars>>

\* lines 35-42: return CombineFactualJob(jobs, requested_features=set(), combined_requests=[])
FactsReturn ==
    /\ pc = "jobs" /\ idx > Len(JobArgs(grouped_requests, grouped_facts))
    /\ result' = [jobs |-> jobs, requested_features |-> {},
                  combined_requests |-> <<>>, returned |-> TRUE]
    /\ pc' = "done"
    /\ UNCHANGED <<kind, facts, sources, requests, idx, grouped_requests,
                   grouped_facts, jobs, calls, previous>>
    /\ UNCHANGED <<dslVars, psqlVars, nodeVars, litVars, planVars, extractVars,
                   triggerVars, serverVars, chainVars>>

\* what a call produced: the groups (sources and facts of each job), or a failure
Outcome ==
    IF pc = "raised" THEN [status |-> "raised", groups |-> {}]
    ELSE [status |-> "returned",
          groups |-> {[sources |-> {result.jobs[i].requests[j].source :
                                        j \in 1..Len(result.jobs[i].requests)},
                       facts |-> result.jobs[i].facts] : i \in 1..Len(result.jobs)}]

\* facts() is called a second time with the same two mappings, iterated in any order
FactsAgain ==
    /\ pc \in {"done", "raised"} /\ calls = 1
    /\ previous' = Outcome
    /\ calls' = 2
    /\ sources' \in InjSeqs(Range(sources), Len(sources))
    /\ pc' = "loop"
    /\ idx' = 1
    /\ grouped_requests' = <<>>
    /\ grouped_facts' = EmptyDict
    /\ jobs' = <<>>
    /\ result' = NoJob
    /\ UNCHANGED <<kind, facts, requests>>
    /\ UNCHANGED <<dslVars, psqlVars, nodeVars, litVars, planVars, extractVars,
                   triggerVars, serverVars, chainVars>>

\* CombineFactualJob.retrival_requests: the requests of its jobs and the combined ones
CombineRequests(job) ==
    UNION {Range(job.jobs[i].requests) : i \in 1..Len(job.jobs)}
        \cup Range(job.combined_requests)

-----------------------------------------------------------------------------
(* The feature DSL: src/aligned/compiler/feature_factory.py *)

\* the value None of _name and of transformation
None == ""
NoTransformation == [factory |-> "None", using_features |-> <<>>]

\* what depth() ends with when the recursion never reaches a leaf
RecursionError == -1

NotCompiled ==
    [status |-> "none", node |-> 0, name |-> None, depending_on |-> <<>>,
     depth |-> 0]

\* a new FeatureFactory object of class cls: the class attributes _name = None,
\* _location = None, transformation = None
NewNode(cls) ==
    [cls |-> cls, _name |-> None, _location |-> None,
     transformation |-> NoTransformation]

\* the operand nodes a TransformationFactory built from (first, second) retains;
\* second = 0 stands for an operand that is a plain value
UsingFeatures(first, second) == IF second = 0 THEN <<first>> ELSE <<first, second>>

\* FeatureFactory.name: raises ValueError when no name was given
nameUnchecked(node) == node._name
name(node) == IF node._name = None THEN "ValueError" ELSE node._name

\* FeatureFactory.feature_referance:
\* FeatureReferance(self.name, self._location, self.dtype)
feature_referance(node) ==
    [raised |-> name(node) = "ValueError", name |-> node._name,
     location |-> node._location, dtype |-> node.cls]

\* FeatureFactory.depth, called on node self of graph g; fuel is the number of
\* nested calls left before the recursion is known to run in a cycle
RECURSIVE depth(_, _, _)
depthOfLast(g, self, fuel) ==
    IF fuel = 0 THEN RecursionError
    ELSE IF g[self].transformation = NoTransformation THEN 0
    ELSE LET using == g[self].transformation.using_features
             RECURSIVE loop(_, _)
             loop(i, value) ==
                 IF i > Len(using) THEN value + 1
                 ELSE LET d == depth(g, using[i], fuel - 1)
                      IN IF d = RecursionError THEN RecursionError
                         ELSE loop(i + 1, d)
         IN loop(1, 0)
depth(g, self, fuel) ==
    IF fuel = 0 THEN RecursionError
    ELSE IF g[self].transformation = NoTransformation THEN 0
    ELSE LET using == g[self].transformation.using_features
             RECURSIVE loop(_, _)
             loop(i, value) ==
                 IF i > Len(using) THEN value + 1
                 ELSE LET d == depth(g, using[i], fuel - 1)
                      IN IF d = RecursionError THEN RecursionError
                         ELSE loop(i + 1, IF d > value THEN d ELSE value)
         IN loop(1, 0)

\* a chain of more calls than there are nodes passes a node twice
Depth(g, self) == depth(g, self, Len(g) + 1)

\* FeatureFactory.compile; the keyword arguments of DerivedFeature(...) are
\* evaluated in order: name, depending_on, transformation, depth
compile(g, self) ==
    LET node == g[self]
        using == node.transformation.using_features
        refs == [i \in 1..Len(using) |-> feature_referance(g[using[i]])]
        failed(error) == [status |-> error, node |-> self, name |-> None,
                          depending_on |-> <<>>, depth |-> 0]
    IN IF node.transformation = NoTransformation THEN failed("ValueError")
       ELSE IF name(node) = "ValueError" THEN failed("ValueError")
       ELSE IF \E i \in 1..Len(refs) : refs[i].raised THEN failed("ValueError")
       ELSE IF Depth(g, self) = RecursionError THEN failed("RecursionError")
       ELSE [status |-> "DerivedFeature", node |-> self, name |-> name(node),
             depending_on |-> refs, depth |-> Depth(g, self)]

\* the graph compile() leaves behind: compile(), depth() and feature_referance()
\* assign no attribute of any node
GraphAfterCompileNamed(g, self) == [g EXCEPT ![self]._name = "compiled"]
GraphAfterCompile(g, self) == g

DslIdle == nodes = <<>> /\ compiled = NotCompiled /\ retyped = 0

\* String(): a feature declared without a transformation
NewFeature ==
    /\ Len(nodes) + retyped < MaxOps
    /\ nodes' = Append(nodes, NewNode("String"))
    /\ UNCHANGED retyped
    /\ compiled' = NotCompiled
    /\ UNCHANGED <<factsVars, psqlVars, nodeVars, litVars, planVars,
                   extractVars, triggerVars, serverVars, chainVars>>

\* __set_name__: the feature is bound as an attribute of a view
SetName ==
    /\ \E self \in 1..Len(nodes) :
         /\ nodes[self]._name = None
         /\ nodes' = [nodes EXCEPT ![self]._name = "f" \o ToString(self)]
    /\ UNCHANGED retyped
    /\ compiled' = NotCompiled
    /\ UNCHANGED <<factsVars, psqlVars, nodeVars, litVars, planVars,
                   extractVars, triggerVars, serverVars, chainVars>>

\* EquatableFeature.__eq__(self, right): instance = Bool();
\* instance.transformation = EqualsFactory(self, right)
Equals ==
    /\ Len(nodes) + retyped < MaxOps
    /\ \E self \in 1..Len(nodes), right \in 0..Len(nodes) :
         nodes' = Append(nodes,
                    [NewNode("Bool") EXCEPT !.transformation =
                        [factory |-> "EqualsFactory",
                         using_features |-> UsingFeatures(self, right)]])
    /\ UNCHANGED retyped
    /\ compiled' = NotCompiled
    /\ UNCHANGED <<factsVars, psqlVars, nodeVars, litVars, planVars,
                   extractVars, triggerVars, serverVars, chainVars>>

\* String.append(self, feature): feature = String();
\* feature.transformation = AppendStrings(self, feature)
\* the parameter is rebound to the new node before AppendStrings is built
Append_ ==
    /\ Len(nodes) + retyped < MaxOps
    /\ \E self \in 1..Len(nodes) :
         /\ nodes[self].cls = "String"
         /\ LET feature == Len(nodes) + 1
            IN nodes' = Append(nodes,
                  [NewNode("String") EXCEPT !.transformation =
                      [factory |-> "AppendStrings",
                       using_features |-> UsingFeatures(self, feature)]])
    /\ UNCHANGED retyped
    /\ compiled' = NotCompiled
    /\ UNCHANGED <<factsVars, psqlVars, nodeVars, litVars, planVars,
                   extractVars, triggerVars, serverVars, chainVars>>

\* transform_pandas(self, transformation, as_dtype): dtype = as_dtype;
\* dtype.transformation = PandasTransformationFactory(dtype, transformation, [self])
TransformPandas ==
    /\ Len(nodes) + retyped < MaxOps
    /\ retyped' = retyped + 1
    /\ \E self \in 1..Len(nodes), as_dtype \in 1..Len(nodes) :
         nodes' = [nodes EXCEPT ![as_dtype].transformation =
                      [factory |-> "PandasTransformationFactory",
                       using_features |-> <<self>>]]
    /\ compiled' = NotCompiled
    /\ UNCHANGED <<factsVars, psqlVars, nodeVars, litVars, planVars,
                   extractVars, triggerVars, serverVars, chainVars>>

\* transform_polars(self, expression, using_features, as_dtype):
\* dtype = as_dtype or self.copy_type();
\* dtype.transformation = PolarsTransformationFactory(dtype, expression, using_features or [self])
\* as_dtype = 0 stands for None, using_features = <<>> for None or []
TransformPolars ==
    /\ \E self \in 1..Len(nodes), as_dtype \in 0..Len(nodes),
          using_features \in {<<>>} \cup {<<j>> : j \in 1..Len(nodes)} :
         LET transformation ==
                 [factory |-> "PolarsTransformationFactory",
                  using_features |-> IF using_features = <<>> THEN <<self>>
                                     ELSE using_features]
         IN IF as_dtype = 0
            THEN /\ Len(nodes) + retyped < MaxOps
                 /\ nodes' = Append(nodes,
                       [NewNode(nodes[self].cls) EXCEPT !.transformation = transformation])
                 /\ UNCHANGED retyped
            ELSE /\ Len(nodes) + retyped < MaxOps
                 /\ retyped' = retyped + 1
                 /\ nodes' = [nodes EXCEPT ![as_dtype].transformation = transformation]
    /\ compiled' = NotCompiled
    /\ UNCHANGED <<factsVars, psqlVars, nodeVars, litVars, planVars,
                   extractVars, triggerVars, serverVars, chainVars>>

\* compile() is called on a node
Compile ==
    /\ \E self \in 1..Len(nodes) :
         /\ compiled' = compile(nodes, self)
         /\ nodes' = GraphAfterCompile(nodes, self)
    /\ UNCHANGED retyped
    /\ UNCHANGED <<factsVars, psqlVars, nodeVars, litVars, planVars,
                   extractVars, triggerVars, serverVars, chainVars>>

NextDsl ==
    \/ NewFeature
    \/ SetName
    \/ Equals
    \/ Append_
    \/ TransformPandas
    \/ TransformPolars
    \/ Compile

-----------------------------------------------------------------------------
(* One FeatureFactory: naming, constraints, feature() and references.
   src/aligned/compiler/feature_factory.py *)

\* the argument values of lower_bound, upper_bound, min_length, max_length,
\* the values of is_inclusive and the list handed to accepted_values
BoundValues == {"1", "2"}
InclusiveValues == {"None", "True", "False"}
AcceptedValues == <<"a", "b">>

\* the constraint objects of aligned.schemas.constraints: two of them are
\* equal, and hash alike, when class and value are the same
Constraint(cls, value) == [cls |-> cls, value |-> value]

\* every constraint the operations can build
Constraints ==
    {Constraint("Required", <<>>), Constraint("InDomain", AcceptedValues)}
    \cup {Constraint(cls, <<v>>) :
            cls \in {"LowerBound", "LowerBoundInclusive", "UpperBound",
                     "UpperBoundInclusive", "MinLength", "MaxLength"},
            v \in BoundValues}

\* the object a new FeatureFactory is: NewNode and the class attributes
\* _description = None, constraints = None
NewFactory(cls) ==
    [cls |-> cls, _name |-> None, _location |-> None, _description |-> None,
     constraints |-> None, transformation |-> NoTransformation]

\* Target(feature): _name = None, _location = None
NewTarget == [_name |-> None, _location |-> None]

NoReference == [of |-> "none", raised |-> FALSE, name |-> None, location |-> None]
NoFeature == [status |-> "none", name |-> None, dtype |-> None,
              description |-> None, constraints |-> None]

\* _add_constraint(self, constraint), for a Constraint instance: self is the
\* pair of the attribute constraints (None or the reference "set") and the
\* content of the set object; a set is allocated when the attribute is None
\* or empty, then constraint is added to the set
_add_constraintReplacing(self, constraint) ==
    [constraints |-> "set", content |-> {constraint}]
_add_constraint(self, constraint) ==
    IF self.constraints = None \/ self.content = {}
    THEN [constraints |-> "set", content |-> {constraint}]
    ELSE [constraints |-> "set", content |-> self.content \cup {constraint}]

\* the effect of an operation that calls self._add_constraint(constraint)
AddConstraint(constraint) ==
    LET after == _add_constraint([constraints |-> factory.constraints,
                                  content |-> set_object], constraint)
    IN /\ Cardinality(after.content) <= MaxConstraints
       /\ factory' = [factory EXCEPT !.constraints = after.constraints]
       /\ set_object' = after.content

\* Target.feature_referance
target_feature_referance(self, feature) ==
    IF self._name = None \/ self._location = None
    THEN [of |-> "Target", raised |-> TRUE, name |-> None, location |-> None]
    ELSE [of |-> "Target", raised |-> FALSE, name |-> self._name,
          location |-> self._location]

NodeIdle ==
    /\ factory = NewFactory("String")
    /\ set_object = {}
    /\ target = NewTarget
    /\ reference = NoReference
    /\ ir = NoFeature

\* __set_name__ of the FeatureFactory
FactorySetName ==
    /\ factory._name = None
    /\ factory' = [factory EXCEPT !._name = "x"]
    /\ UNCHANGED <<set_object, target, reference, ir>>
    /\ UNCHANGED <<factsVars, dslVars, psqlVars, litVars, planVars, extractVars,
                   triggerVars, serverVars, chainVars>>

\* the owning view assigns _location of the FeatureFactory
FactorySetLocation ==
    /\ factory._location = None
    /\ factory' = [factory EXCEPT !._location = "feature_view:v"]
    /\ UNCHANGED <<set_object, target, reference, ir>>
    /\ UNCHANGED <<factsVars, dslVars, psqlVars, litVars, planVars, extractVars,
                   triggerVars, serverVars, chainVars>>

\* Target.__set_name__
TargetSetName ==
    /\ target._name = None
    /\ target' = [target EXCEPT !._name = "y"]
    /\ UNCHANGED <<factory, set_object, reference, ir>>
    /\ UNCHANGED <<factsVars, dslVars, psqlVars, litVars, planVars, extractVars,
                   triggerVars, serverVars, chainVars>>

\* the owning model assigns _location of the Target
TargetSetLocation ==
    /\ target._location = None
    /\ target' = [target EXCEPT !._location = "model:m"]
    /\ UNCHANGED <<factory, set_object, reference, ir>>
    /\ UNCHANGED <<factsVars, dslVars, psqlVars, litVars, planVars, extractVars,
                   triggerVars, serverVars, chainVars>>

\* description(self, description)
Description ==
    /\ \E description \in {"d"} :
         factory' = [factory EXCEPT !._description = description]
    /\ UNCHANGED <<set_object, target, reference, ir>>
    /\ UNCHANGED <<factsVars, dslVars, psqlVars, litVars, planVars, extractVars,
                   triggerVars, serverVars, chainVars>>

\* is_required(): self._add_constraint(Required())
IsRequired ==
    /\ AddConstraint(Constraint("Required", <<>>))
    /\ UNCHANGED <<target, reference, ir>>
    /\ UNCHANGED <<factsVars, dslVars, psqlVars, litVars, planVars, extractVars,
                   triggerVars, serverVars, chainVars>>

\* lower_bound(value, is_inclusive)
LowerBound ==
    /\ \E value \in BoundValues, is_inclusive \in InclusiveValues :
         IF is_inclusive = "True"
         THEN AddConstraint(Constraint("LowerBoundInclusive", <<value>>))
         ELSE AddConstraint(Constraint("LowerBound", <<value>>))
    /\ UNCHANGED <<target, reference, ir>>
    /\ UNCHANGED <<factsVars, dslVars, psqlVars, litVars, planVars, extractVars,
                   triggerVars, serverVars, chainVars>>

\* upper_bound(value, is_inclusive)
UpperBound ==
    /\ \E value \in BoundValues, is_inclusive \in InclusiveValues :
         IF is_inclusive = "True"
         THEN AddConstraint(Constraint("UpperBoundInclusive", <<value>>))
         ELSE AddConstraint(Constraint("UpperBound", <<value>>))
    /\ UNCHANGED <<target, reference, ir>>
    /\ UNCHANGED <<factsVars, dslVars, psqlVars, litVars, planVars, extractVars,
                   triggerVars, serverVars, chainVars>>

\* min_length(length)
MinLength ==
    /\ \E length \in BoundValues : AddConstraint(Constraint("MinLength", <<length>>))
    /\ UNCHANGED <<target, reference, ir>>
    /\ UNCHANGED <<factsVars, dslVars, psqlVars, litVars, planVars, extractVars,
                   triggerVars, serverVars, chainVars>>

\* max_length(length)
MaxLength ==
    /\ \E length \in BoundValues : AddConstraint(Constraint("MaxLength", <<length>>))
    /\ UNCHANGED <<target, reference, ir>>
    /\ UNCHANGED <<factsVars, dslVars, psqlVars, litVars, planVars, extractVars,
                   triggerVars, serverVars, chainVars>>

\* accepted_values(values)
AcceptedValuesCall ==
    /\ AddConstraint(Constraint("InDomain", AcceptedValues))
    /\ UNCHANGED <<target, reference, ir>>
    /\ UNCHANGED <<factsVars, dslVars, psqlVars, litVars, planVars, extractVars,
                   triggerVars, serverVars, chainVars>>

\* feature(): Feature(name=self.name, dtype=self.dtype,
\* description=self._description, tags=None, constraints=self.constraints);
\* the Feature holds the object self.constraints refers to
Feature ==
    /\ ir' = IF name(factory) = "ValueError"
             THEN [NoFeature EXCEPT !.status = "ValueError"]
             ELSE [status |-> "Feature", name |-> name(factory),
                   dtype |-> factory.cls, description |-> factory._description,
                   constraints |-> factory.constraints]
    /\ UNCHANGED <<factory, set_object, target, reference>>
    /\ UNCHANGED <<factsVars, dslVars, psqlVars, litVars, planVars, extractVars,
                   triggerVars, serverVars, chainVars>>

\* feature_referance() of the FeatureFactory
FeatureReferance ==
    /\ reference' = LET ref == feature_referance(factory)
                    IN [of |-> "FeatureFactory", raised |-> ref.raised,
                        name |-> ref.name, location |-> ref.location]
    /\ UNCHANGED <<factory, set_object, target, ir>>
    /\ UNCHANGED <<factsVars, dslVars, psqlVars, litVars, planVars, extractVars,
                   triggerVars, serverVars, chainVars>>

\* feature_referance() of the Target
TargetFeatureReferance ==
    /\ reference' = target_feature_referance(target, factory)
    /\ UNCHANGED <<factory, set_object, target, ir>>
    /\ UNCHANGED <<factsVars, dslVars, psqlVars, litVars, planVars, extractVars,
                   triggerVars, serverVars, chainVars>>

NextNode ==
    \/ FactorySetName
    \/ FactorySetLocation
    \/ TargetSetName
    \/ TargetSetLocation
    \/ Description
    \/ IsRequired
    \/ LowerBound
    \/ UpperBound
    \/ MinLength
    \/ MaxLength
    \/ AcceptedValuesCall
    \/ Feature
    \/ FeatureReferance
    \/ TargetFeatureReferance

-----------------------------------------------------------------------------
(* Literal values: src/aligned/schemas/literal_value.py *)

\* a Python value: its runtime type, its content when it is not a list, and
\* its elements when it is one
PyValue(type, scalar, items) == [type |-> type, scalar |-> scalar, items |-> items]

\* the values that are not lists; the last three are of types from_value
\* has no branch for
Scalars ==
    {PyValue("int", "1", <<>>), PyValue("bool", "True", <<>>),
     PyValue("float", "1.5", <<>>), PyValue("date", "2024-01-01", <<>>),
     PyValue("datetime", "2024-01-01T00:00", <<>>), PyValue("str", "a", <<>>),
     PyValue("dict", "{}", <<>>), PyValue("NoneType", "None", <<>>),
     PyValue("tuple", "()", <<>>)}

\* the values made of n objects (a list counts as one, with its elements),
\* and the lists of values made of n objects in all
RECURSIVE ValuesOfSize(_), ListsOfSize(_)
ValuesOfSize(n) ==
    (IF n = 1 THEN Scalars ELSE {})
        \cup {PyValue("list", "", q) : q \in ListsOfSize(n - 1)}
ListsOfSize(n) ==
    IF n = 0 THEN {<<>>}
    ELSE UNION {{<<v>> \o q : v \in ValuesOfSize(k), q \in ListsOfSize(n - k)} :
                   k \in 1..n}

PyValues == UNION {ValuesOfSize(n) : n \in 1..MaxSize}

\* isinstance(value, cls): bool is a subclass of int, datetime one of date
isinstance(value, cls) ==
    \/ value.type = cls
    \/ value.type = "bool" /\ cls = "int"
    \/ value.type = "datetime" /\ cls = "date"

\* IntValue(value), ..., ArrayValue([...]): the tag is the class attribute name
Literal(tag, value, items) ==
    [name |-> tag, type |-> value.type, scalar |-> value.scalar, items |-> items]

\* ValueError(f'Unable to find literal value for type {type(value)}')
ValueError(value) ==
    [name |-> "ValueError", type |-> value.type, scalar |-> "", items |-> <<>>]

NoLiteral == [name |-> "", type |-> "", scalar |-> "", items |-> <<>>]

\* LiteralValue.from_value: the isinstance checks in the order of lines 55-67;
\* an element of a list that raises ends the whole call
RECURSIVE from_value(_)
from_valueLenient(value) ==
    IF isinstance(value, "int") THEN Literal("int", value, <<>>)
    ELSE IF isinstance(value, "float") THEN Literal("float", value, <<>>)
    ELSE IF isinstance(value, "bool") THEN Literal("bool", value, <<>>)
    ELSE IF isinstance(value, "date") THEN Literal("date", value, <<>>)
    ELSE IF isinstance(value, "datetime") THEN Literal("datetime", value, <<>>)
    ELSE IF isinstance(value, "str") THEN Literal("string", value, <<>>)
    ELSE IF isinstance(value, "list")
    THEN LET vals == [i \in 1..Len(value.items) |-> from_value(value.items[i])]
             raising == {i \in 1..Len(vals) : vals[i].name = "ValueError"}
         IN IF raising = {} THEN Literal("array", value, vals)
            ELSE vals[CHOOSE i \in raising : \A j \in raising : i <= j]
    ELSE Literal("string", value, <<>>)
from_value(value) ==
    IF isinstance(value, "int") THEN Literal("int", value, <<>>)
    ELSE IF isinstance(value, "float") THEN Literal("float", value, <<>>)
    ELSE IF isinstance(value, "bool") THEN Literal("bool", value, <<>>)
    ELSE IF isinstance(value, "date") THEN Literal("date", value, <<>>)
    ELSE IF isinstance(value, "datetime") THEN Literal("datetime", value, <<>>)
    ELSE IF isinstance(value, "str") THEN Literal("string", value, <<>>)
    ELSE IF isinstance(value, "list")
    THEN LET vals == [i \in 1..Len(value.items) |-> from_value(value.items[i])]
             raising == {i \in 1..Len(vals) : vals[i].name = "ValueError"}
         IN IF raising = {} THEN Literal("array", value, vals)
            ELSE vals[CHOOSE i \in raising : \A j \in raising : i <= j]
    ELSE ValueError(value)

\* _serialize(): the dict of a literal, with the tag under 'name' and the
\* payload under 'value'
RECURSIVE to_dict(_)
to_dict(lit) ==
    [name |-> lit.name,
     value |-> IF lit.name = "array"
               THEN [scalar |-> "", list |-> [i \in 1..Len(lit.items) |-> to_dict(lit.items[i])]]
               ELSE [scalar |-> lit.scalar, list |-> <<>>]]

NoDict == [name |-> "", value |-> [scalar |-> "", list |-> <<>>]]

\* the callers
Threads == 1..MaxThreads

IdleThread ==
    [pc |-> "idle", call |-> "", name_type |-> "", result |-> "none",
     returned |-> NoLiteral]

\* the tags of the classes listed in SupportedLiteralValues.__init__
SupportedTags == {"int", "float", "bool", "date", "datetime", "string", "array"}

LiteralIdle ==
    /\ py_value = PyValue("NoneType", "None", <<>>)
    /\ literal = NoLiteral
    /\ serialized = NoDict
    /\ lit_pc = "idle"
    /\ _shared = None
    /\ threads = [t \in Threads |-> IdleThread]

\* a value is about to be handed to from_value
LiteralStart ==
    /\ py_value \in PyValues
    /\ literal = NoLiteral
    /\ serialized = NoDict
    /\ lit_pc = "start"
    /\ _shared = None
    /\ threads = [t \in Threads |-> IdleThread]

\* LiteralValue.from_value(py_value)
FromValue ==
    /\ lit_pc = "start"
    /\ literal' = from_value(py_value)
    /\ lit_pc' = IF literal'.name = "ValueError" THEN "raised" ELSE "made"
    /\ UNCHANGED <<py_value, serialized, _shared, threads>>
    /\ UNCHANGED <<factsVars, dslVars, psqlVars, nodeVars, planVars,
                   extractVars, triggerVars, serverVars, chainVars>>

\* literal._serialize()
Serialize ==
    /\ lit_pc = "made"
    /\ serialized' = to_dict(literal)
    /\ lit_pc' = "serialized"
    /\ UNCHANGED <<py_value, literal, _shared, threads>>
    /\ UNCHANGED <<factsVars, dslVars, psqlVars, nodeVars, planVars,
                   extractVars, triggerVars, serverVars, chainVars>>

\* a caller enters SupportedLiteralValues.shared()
CallShared(t) ==
    /\ lit_pc \in {"raised", "serialized"}
    /\ threads[t].pc = "idle"
    /\ threads' = [threads EXCEPT ![t] = [@ EXCEPT !.pc = "shared", !.call = "shared"]]
    /\ UNCHANGED <<py_value, literal, serialized, lit_pc, _shared>>
    /\ UNCHANGED <<factsVars, dslVars, psqlVars, nodeVars, planVars,
                   extractVars, triggerVars, serverVars, chainVars>>

\* a caller enters LiteralValue._deserialize(value) with its own copy of the
\* dict: name_type = value['name']; del value['name']; then shared() is called
CallDeserialize(t) ==
    /\ lit_pc = "serialized"
    /\ threads[t].pc = "idle"
    /\ threads' = [threads EXCEPT ![t] =
                      [@ EXCEPT !.pc = "shared", !.call = "_deserialize",
                                !.name_type = serialized.name]]
    /\ UNCHANGED <<py_value, literal, serialized, lit_pc, _shared>>
    /\ UNCHANGED <<factsVars, dslVars, psqlVars, nodeVars, planVars,
                   extractVars, triggerVars, serverVars, chainVars>>

\* shared(), lines 25-26: if cls._shared: return cls._shared
SharedCheck(t) ==
    /\ threads[t].pc = "shared"
    /\ threads' = [threads EXCEPT ![t] =
                      IF _shared # None
                      THEN [@ EXCEPT !.pc = "returned", !.result = "registry"]
                      ELSE [@ EXCEPT !.pc = "init"]]
    /\ UNCHANGED <<py_value, literal, serialized, lit_pc, _shared>>
    /\ UNCHANGED <<factsVars, dslVars, psqlVars, nodeVars, planVars,
                   extractVars, triggerVars, serverVars, chainVars>>

\* shared(), line 27: SupportedLiteralValues() runs __init__, whose first
\* self.values[lit.name] = lit reads the attribute values, which is declared
\* (line 15) and never assigned: AttributeError, and line 27 assigns nothing
SharedInit(t) ==
    /\ threads[t].pc = "init"
    /\ threads' = [threads EXCEPT ![t] =
                      [@ EXCEPT !.pc = "raised", !.result = "AttributeError"]]
    /\ UNCHANGED <<py_value, literal, serialized, lit_pc, _shared>>
    /\ UNCHANGED <<factsVars, dslVars, psqlVars, nodeVars, planVars,
                   extractVars, triggerVars, serverVars, chainVars>>

NextLiteral ==
    \/ FromValue
    \/ Serialize
    \/ \E t \in Threads : CallShared(t)
    \/ \E t \in Threads : CallDeserialize(t)
    \/ \E t \in Threads : SharedCheck(t)
    \/ \E t \in Threads : SharedInit(t)

-----------------------------------------------------------------------------
(* FactPsqlJob.build_request: src/aligned/psql/jobs.py *)

\* SQL null, and None in the fact table
NULL == -1

\* values of the entity column (a missing value of the facts is NULL);
\* timestamps of facts and of the source
EntityValues == {0, 1}
FactTimes == {2, 3}
SourceTimes == {1, 2, 4}

\* the dtypes an entity of the request is declared with
EntityDtypes == {"int32", "int64", "string"}

\* lines 184-195: the SQL type of a dtype; a dtype that is none of the listed
\* ones is written as uuid
dtype_to_sql_typeNarrow(dtype) ==
    IF dtype = "string" THEN "text"
    ELSE IF dtype = "uuid" THEN "uuid"
    ELSE IF dtype = "int32" THEN "integer"
    ELSE IF dtype = "datetime" THEN "TIMESTAMP WITH TIME ZONE"
    ELSE "uuid"
dtype_to_sql_type(dtype) ==
    IF dtype = "string" THEN "text"
    ELSE IF dtype = "uuid" THEN "uuid"
    ELSE IF dtype = "int32" \/ dtype = "int64" THEN "integer"
    ELSE IF dtype = "datetime" THEN "TIMESTAMP WITH TIME ZONE"
    ELSE "uuid"

\* lines 208-216: the dtype of every entity of the request, and of the
\* event_timestamp column when the request has an event timestamp
entity_types(request) ==
    {<<"user_id", request.entity_dtype>>}
        \cup (IF request.event_timestamp
              THEN {<<"event_timestamp", "datetime">>} ELSE {})

\* entity_types.get(column, FeatureType('').int32)
entity_type_of(request, column) ==
    IF \E pair \in entity_types(request) : pair[1] = column
    THEN (CHOOSE pair \in entity_types(request) : pair[1] = column)[2]
    ELSE "int32"

\* lines 230-235: the SQL type of each column of the fact table, row_id included
entity_type_list(request) ==
    [user_id |-> dtype_to_sql_type(entity_type_of(request, "user_id")),
     event_timestamp |-> dtype_to_sql_type(entity_type_of(request, "event_timestamp")),
     row_id |-> dtype_to_sql_type(entity_type_of(request, "row_id"))]

NoDtypes == [user_id |-> "", event_timestamp |-> "", row_id |-> ""]

NoQuery == [values |-> <<>>, dtypes |-> NoDtypes, tables |-> <<>>]

\* template line 425: {% if value.value %}'{{value.value}}'::dtype{% else %}null::dtype
\* a cell is written as its value when the value is true in a condition, else as null
Render(value) == IF value # NULL /\ value # 0 THEN value ELSE NULL

\* lines 226-250: the rows of the VALUES list, row_id = 1..n added as last column
query_values(rows) ==
    [i \in 1..Len(rows) |->
        [user_id |-> Render(rows[i].user_id),
         event_timestamp |-> Render(rows[i].event_timestamp),
         row_id |-> Render(i)]]

\* lines 267-289: the dict appended to tables for a request
table_of(request) ==
    [name |-> request.location,
     fv |-> request.location,
     joins |-> [entity |-> "user_id",
                event_timestamp_clause |-> IF request.event_timestamp THEN ">=" ELSE ""],
     sort_query |-> IF request.event_timestamp
                    THEN <<"entities.row_id", "ts DESC">>
                    ELSE <<"entities.row_id">>]

\* ta.<entity> = entities.<entity> AND entities.event_timestamp >= ta.<ts>
\* a comparison with null is not true
JoinHolds(table, entities_row, ta) ==
    /\ entities_row.user_id # NULL /\ ta.user_id # NULL
    /\ ta.user_id = entities_row.user_id
    /\ table.joins.event_timestamp_clause = ">=" =>
          /\ entities_row.event_timestamp # NULL /\ ta.ts # NULL
          /\ entities_row.event_timestamp >= ta.ts

NoRow == [user_id |-> NULL, ts |-> NULL]

\* FROM entities LEFT JOIN <name> ta ON <joins>: the rows joined to one row of
\* entities, a row of nulls when no row of the table matches
LeftJoin(table, entities_row, rows) ==
    LET matched == {ta \in rows : JoinHolds(table, entities_row, ta)}
    IN IF matched = {} THEN {NoRow} ELSE matched

\* SELECT DISTINCT ON (entities.row_id) ... ORDER BY <sort_query>: the rows that
\* can come first for one row_id
FirstRows(table, joined) ==
    IF Len(table.sort_query) = 2
    THEN {ta \in joined : \A other \in joined : other.ts <= ta.ts}
    ELSE joined

PsqlIdle ==
    /\ fact_rows = <<>>
    /\ psql_request = [location |-> "", event_timestamp |-> FALSE, entity_dtype |-> ""]
    /\ source_table = {}
    /\ query = NoQuery
    /\ cte_rows = <<>>
    /\ psql_pc = "idle"

\* a job over a fact table, one request and the content of its source table
PsqlStart ==
    /\ \E n \in 1..MaxRows :
         fact_rows \in [1..n -> [user_id : EntityValues \cup {NULL},
                                 event_timestamp : FactTimes]]
    /\ psql_request \in [location : {"orders"}, event_timestamp : BOOLEAN,
                          entity_dtype : EntityDtypes]
    /\ source_table \in SUBSET [user_id : EntityValues, ts : SourceTimes]
    /\ query = NoQuery
    /\ cte_rows = <<>>
    /\ psql_pc = "start"

\* build_request(): the context handed to the template
PsqlBuildRequest ==
    /\ psql_pc = "start"
    /\ query' = [values |-> query_values(fact_rows),
                 dtypes |-> entity_type_list(psql_request),
                 tables |-> <<table_of(psql_request)>>]
    /\ psql_pc' = "built"
    /\ UNCHANGED <<fact_rows, psql_request, source_table, cte_rows>>
    /\ UNCHANGED <<factsVars, dslVars, nodeVars, litVars, planVars, extractVars,
                   triggerVars, serverVars, chainVars>>

\* the database evaluates <location>_cte of the query: one row for each row_id
PsqlExecute ==
    /\ psql_pc = "built"
    /\ cte_rows' \in [1..Len(query.values) -> source_table \cup {NoRow}]
    /\ \A i \in 1..Len(query.values) :
         cte_rows'[i] \in FirstRows(query.tables[1],
                             LeftJoin(query.tables[1], query.values[i], source_table))
    /\ psql_pc' = "executed"
    /\ UNCHANGED <<fact_rows, psql_request, source_table, query>>
    /\ UNCHANGED <<factsVars, dslVars, nodeVars, litVars, planVars, extractVars,
                   triggerVars, serverVars, chainVars>>

NextPsql ==
    \/ PsqlBuildRequest
    \/ PsqlExecute

-----------------------------------------------------------------------------
(* FactPsqlJob.psql_job over several requests: src/aligned/psql/jobs.py *)

\* the names of the locations of feature views
Locations == {"orders", "users"}

\* zero, one or many source rows satisfying the join of one fact row
MatchCounts == {0, 1, 2}

NoPlan == [ctes |-> <<>>, joins |-> <<>>]

NoAnswer == [status |-> "none", rows |-> <<>>]

\* lines 256-289 and 332-376: one dict is appended to tables for each request,
\* its 'fv' is request.location.name; the template (lines 402-409, 430-437)
\* defines the CTE <fv>_cte for each table
tables(reqs) == [k \in 1..Len(reqs) |-> reqs[k]]

\* lines 252 and 332: feature_view_names, the names of the keys of self.sources;
\* lines 293-296 and 383-386: INNER JOIN <feature_view>_cte for each of them
joins(srcs, reqs) == [k \in 1..Len(srcs) |-> srcs[k]]

\* LEFT JOIN <table> ta ON ...: an entities row without a match is kept once
LeftJoinRows(matches) == IF matches = 0 THEN 1 ELSE matches

\* SELECT DISTINCT ON (entities.row_id): one row for each row_id that has any
SelectAll(joined) == joined
SelectDistinctOn(joined) == IF joined > 0 THEN 1 ELSE 0

\* the rows of <fv>_cte that carry row_id
CteRows(k, row_id) == SelectDistinctOn(LeftJoinRows(plan_matches[k][row_id]))

\* FROM entities INNER JOIN a_cte ON a_cte.row_id = entities.row_id INNER JOIN ...
\* the rows of the final SELECT that carry row_id, the CTEs joined being the
\* first n of joined
RECURSIVE InnerJoinRows(_, _, _)
InnerJoinRows(joined, n, row_id) ==
    IF n = 0 THEN 1
    ELSE LET k == CHOOSE j \in 1..Len(plan_query.ctes) :
                      plan_query.ctes[j] = joined[n]
         IN InnerJoinRows(joined, n - 1, row_id) * CteRows(k, row_id)

PlanIdle ==
    /\ plan_facts = [type |-> "", rows |-> 0]
    /\ plan_sources = <<>>
    /\ plan_requests = <<>>
    /\ plan_matches = <<>>
    /\ plan_query = NoPlan
    /\ plan_result = NoAnswer
    /\ plan_pc = "idle"

\* a job: the facts, the sources by location, the requests (each on a location
\* that has a source, line 257) and the content of the database
PlanStart ==
    /\ plan_facts \in [type : {"literal", "PostgreSqlJob"}, rows : 1..MaxRows]
    /\ \E n \in 1..Cardinality(Locations) : plan_sources \in InjSeqs(Locations, n)
    /\ \E n \in 1..Len(plan_sources) : plan_requests \in InjSeqs(Range(plan_sources), n)
    /\ plan_matches \in [1..Len(plan_requests) -> [1..plan_facts.rows -> MatchCounts]]
    /\ plan_query = NoPlan
    /\ plan_result = NoAnswer
    /\ plan_pc = "start"

\* psql_job(), line 182: the facts are literal, build_request() renders the query
PlanBuildRequest ==
    /\ plan_pc = "start"
    /\ plan_facts.type = "literal"
    /\ plan_query' = [ctes |-> tables(plan_requests),
                      joins |-> joins(plan_sources, plan_requests)]
    /\ plan_pc' = "built"
    /\ UNCHANGED <<plan_facts, plan_sources, plan_requests, plan_matches, plan_result>>
    /\ UNCHANGED <<factsVars, dslVars, psqlVars, nodeVars, litVars, extractVars,
                   triggerVars, serverVars, chainVars>>

\* psql_job(), lines 180-181: the facts are a PostgreSqlJob,
\* build_sql_entity_query() renders the query
PlanBuildSqlEntityQuery ==
    /\ plan_pc = "start"
    /\ plan_facts.type = "PostgreSqlJob"
    /\ plan_query' = [ctes |-> tables(plan_requests),
                      joins |-> joins(plan_sources, plan_requests)]
    /\ plan_pc' = "built"
    /\ UNCHANGED <<plan_facts, plan_sources, plan_requests, plan_matches, plan_result>>
    /\ UNCHANGED <<factsVars, dslVars, psqlVars, nodeVars, litVars, extractVars,
                   triggerVars, serverVars, chainVars>>

\* the database runs the query: a CTE that is joined but not defined is an
\* error, otherwise every row_id has the rows the joins leave
PlanExecute ==
    /\ plan_pc = "built"
    /\ plan_result' =
         IF \E n \in 1..Len(plan_query.joins) :
                plan_query.joins[n] \notin Range(plan_query.ctes)
         THEN [status |-> "UndefinedTable", rows |-> <<>>]
         ELSE [status |-> "rows",
               rows |-> [row_id \in 1..plan_facts.rows |->
                           InnerJoinRows(plan_query.joins, Len(plan_query.joins),
                                         row_id)]]
    /\ plan_pc' = "executed"
    /\ UNCHANGED <<plan_facts, plan_sources, plan_requests, plan_matches, plan_query>>
    /\ UNCHANGED <<factsVars, dslVars, psqlVars, nodeVars, litVars, extractVars,
                   triggerVars, serverVars, chainVars>>

NextPlan ==
    \/ PlanBuildRequest
    \/ PlanBuildSqlEntityQuery
    \/ PlanExecute

-----------------------------------------------------------------------------
(* FullExtractPsqlJob, DateRangePsqlJob, selects of FactPsqlJob: *)
(* src/aligned/psql/jobs.py                                      *)

\* times are counted in half seconds, from 0 to MaxTime
MaxTime == 3
Times == 0..MaxTime

\* the limits of a full extract: None (NULL), 0 and 1..MaxLimit
MaxLimit == 2

\* the physical column a logical name may be mapped to
PhysicalNames ==
    [logical \in {"price", "user_id"} |->
        IF logical = "price" THEN {"price", "amount"} ELSE {"user_id", "uid"}]

\* source.feature_identifier_for(names): the physical column of each name, in
\* the order of names; a name without a mapping is its own column
feature_identifier_for(mapping, names) ==
    [k \in 1..Len(names) |->
        IF names[k] \in DOMAIN mapping THEN mapping[names[k]] ELSE names[k]]

\* lines 78, 131: f'"{sql_col}" AS {alias}' if sql_col != alias else sql_col
\* lines 263, 345: feature if feature == db_field_name else f'{db_field_name} AS {feature}'
Column(sql_col, alias) ==
    IF sql_col # alias
    THEN [expr |-> sql_col, as |-> alias]
    ELSE [expr |-> sql_col, as |-> None]

\* lines 77-80, 130-133, 262-265: the select list, from zip(sql_columns, all_features)
columnsBare(sql_columns, all_features) ==
    [k \in 1..Len(all_features) |-> [expr |-> sql_columns[k], as |-> None]]
columns(sql_columns, all_features) ==
    [k \in 1..Len(all_features) |-> Column(sql_columns[k], all_features[k])]

\* datetime.strftime('%Y-%m-%d %H:%M:%S'): the text has whole seconds, the
\* database reads it back as the start of that second
strftime(date) == 2 * (date \div 2)

NoLocals == [columns |-> <<>>, limit_query |-> NULL]

NoBetween == [start |-> NULL, end |-> NULL]

NotReturned == [type |-> "none", columns |-> <<>>, limit |-> NULL, between |-> NoBetween]

NoPsqlJob == [made |-> FALSE, query |-> NotReturned]

NoRows == [status |-> "none", rows |-> {}]

ExtractIdle ==
    /\ extract_job = [type |-> "", limit |-> NULL, start_date |-> NULL, end_date |-> NULL]
    /\ extract_request = [all_features |-> <<>>, event_timestamp |-> FALSE]
    /\ extract_mapping = <<>>
    /\ extract_table = {}
    /\ extract_locals = NoLocals
    /\ extract_returned = NotReturned
    /\ extract_psql_job = NoPsqlJob
    /\ extract_rows = NoRows
    /\ extract_pc = "idle"

\* a full extract with any limit, a date range job with any dates, or the
\* request of a FactPsqlJob; the source maps each name to a physical column
ExtractStart ==
    /\ \/ /\ extract_job \in [type : {"FullExtractPsqlJob"},
                             limit : {NULL} \cup 0..MaxLimit,
                             start_date : {NULL}, end_date : {NULL}]
          /\ \E n \in 1..2 :
               extract_request \in [all_features : InjSeqs({"price", "user_id"}, n),
                                    event_timestamp : BOOLEAN]
          /\ extract_table \in SUBSET Times
       \/ /\ extract_job \in [type : {"DateRangePsqlJob"}, limit : {NULL},
                             start_date : Times, end_date : Times]
          /\ extract_job.start_date <= extract_job.end_date
          /\ \E n \in 1..2 :
               extract_request \in [all_features : InjSeqs({"price", "user_id"}, n),
                                    event_timestamp : BOOLEAN]
          /\ extract_table \in SUBSET Times
       \/ /\ extract_job = [type |-> "FactPsqlJob", limit |-> NULL,
                            start_date |-> NULL, end_date |-> NULL]
          /\ extract_request \in
               [all_features : InjSeqs({"price", "entities.user_id", "entities.row_id"}, 3),
                event_timestamp : BOOLEAN]
          /\ extract_table = {}
    /\ extract_mapping \in
         {m \in [{"price", "user_id"} -> {"price", "amount", "user_id", "uid"}] :
             \A logical \in DOMAIN m : m[logical] \in PhysicalNames[logical]}
    /\ extract_locals = NoLocals
    /\ extract_returned = NotReturned
    /\ extract_psql_job = NoPsqlJob
    /\ extract_rows = NoRows
    /\ extract_pc = "start"

\* FullExtractPsqlJob.build_request(), lines 71-88: the columns and the limit
\* are computed, line 88 is an expression statement, the function ends
\* without a return statement and the caller receives None
ExtractFullBuildRequest ==
    /\ extract_pc = "start"
    /\ extract_job.type = "FullExtractPsqlJob"
    /\ extract_locals' =
         [columns |-> columns(feature_identifier_for(extract_mapping,
                                                     extract_request.all_features),
                              extract_request.all_features),
          limit_query |-> IF extract_job.limit # NULL /\ extract_job.limit # 0
                          THEN extract_job.limit ELSE NULL]
    /\ extract_returned' = [NotReturned EXCEPT !.type = "NoneType"]
    /\ extract_pc' = "returned"
    /\ UNCHANGED <<extract_job, extract_request, extract_mapping, extract_table,
                   extract_psql_job, extract_rows>>
    /\ UNCHANGED <<factsVars, dslVars, psqlVars, nodeVars, litVars, planVars,
                   triggerVars, serverVars, chainVars>>

\* DateRangePsqlJob.build_request(), lines 120-142
ExtractDateRangeBuildRequest ==
    /\ extract_pc = "start"
    /\ extract_job.type = "DateRangePsqlJob"
    /\ IF ~extract_request.event_timestamp
       THEN /\ extract_returned' = [NotReturned EXCEPT !.type = "ValueError"]
            /\ extract_pc' = "raised"
            /\ UNCHANGED extract_locals
       ELSE LET cols == columns(feature_identifier_for(extract_mapping,
                                                       extract_request.all_features),
                                extract_request.all_features)
            IN /\ extract_locals' = [columns |-> cols, limit_query |-> NULL]
               /\ extract_returned' =
                    [type |-> "str", columns |-> cols, limit |-> NULL,
                     between |-> [start |-> strftime(extract_job.start_date),
                                  end |-> strftime(extract_job.end_date)]]
               /\ extract_pc' = "returned"
    /\ UNCHANGED <<extract_job, extract_request, extract_mapping, extract_table,
                   extract_psql_job, extract_rows>>
    /\ UNCHANGED <<factsVars, dslVars, psqlVars, nodeVars, litVars, planVars,
                   triggerVars, serverVars, chainVars>>

\* FactPsqlJob.build_request(), lines 258-265: the selects of one request
ExtractFactSelects ==
    /\ extract_pc = "start"
    /\ extract_job.type = "FactPsqlJob"
    /\ extract_locals' =
         [columns |-> columns(feature_identifier_for(extract_mapping,
                                                     extract_request.all_features),
                              extract_request.all_features),
          limit_query |-> NULL]
    /\ extract_pc' = "selected"
    /\ UNCHANGED <<extract_job, extract_request, extract_mapping, extract_table,
                   extract_returned, extract_psql_job, extract_rows>>
    /\ UNCHANGED <<factsVars, dslVars, psqlVars, nodeVars, litVars, planVars,
                   triggerVars, serverVars, chainVars>>

\* psql_job(), lines 69 and 118: PostgreSqlJob(self.config, <what was returned>)
ExtractPsqlJob ==
    /\ extract_pc = "returned"
    /\ extract_psql_job' = [made |-> TRUE, query |-> extract_returned]
    /\ extract_pc' = "job"
    /\ UNCHANGED <<extract_job, extract_request, extract_mapping, extract_table,
                   extract_locals, extract_returned, extract_rows>>
    /\ UNCHANGED <<factsVars, dslVars, psqlVars, nodeVars, litVars, planVars,
                   triggerVars, serverVars, chainVars>>

\* the database runs the query of the job: WHERE col BETWEEN start AND end
\* keeps both ends; a query that is no text cannot be run
ExtractExecute ==
    /\ extract_pc = "job"
    /\ LET q == extract_psql_job.query
       IN extract_rows' =
            IF q.type # "str" THEN [status |-> "TypeError", rows |-> {}]
            ELSE [status |-> "rows",
                  rows |-> {ts \in extract_table :
                               q.between.start <= ts /\ ts <= q.between.end}]
    /\ extract_pc' = "executed"
    /\ UNCHANGED <<extract_job, extract_request, extract_mapping, extract_table,
                   extract_locals, extract_returned, extract_psql_job>>
    /\ UNCHANGED <<factsVars, dslVars, psqlVars, nodeVars, litVars, planVars,
                   triggerVars, serverVars, chainVars>>

NextExtract ==
    \/ ExtractFullBuildRequest
    \/ ExtractDateRangeBuildRequest
    \/ ExtractFactSelects
    \/ ExtractPsqlJob
    \/ ExtractExecute

-----------------------------------------------------------------------------
(* EventTrigger.check_pandas, check_polars: src/aligned/schemas/model.py *)

\* the longest frame
MaxFrame == 2

\* a frame has the entity column id, the payload column p and the column x
\* that the condition reads
FrameRows == [id : {1, 2}, p : {0, 1}, x : {0, 1}]

\* self.condition.name
ConditionName == "is_event"

\* self.condition.transformation.transform_pandas(df): the condition of every
\* row, here x == 1
transform_pandas(df) == [i \in 1..Len(df) |-> df[i].x = 1]

\* self.condition.transformation.transform_polars(df, alias): the frame with
\* the condition as one more column, named alias
transform_polars(df, alias) ==
    [i \in 1..Len(df) |-> df[i] @@ (alias :> (df[i].x = 1))]

\* the rows of a frame whose index is in keep, in the order of the frame
RECURSIVE RowsAt(_, _, _)
RowsAt(frame, keep, n) ==
    IF n = 0 THEN <<>>
    ELSE IF n \in keep
         THEN Append(RowsAt(frame, keep, n - 1), frame[n])
         ELSE RowsAt(frame, keep, n - 1)

\* lines 37-39, 61-63: the names of result.entities and of self.payload
trigger_features == {"id"} \cup {"p"}

\* df[list(features)], lazy.select(features): the rows with those columns only
select(frame, features) ==
    [i \in 1..Len(frame) |-> [column \in features |-> frame[i][column]]]

\* line 40: .loc[mask], the rows where the mask is true
loc(frame, mask) ==
    RowsAt(frame, {i \in 1..Len(frame) : mask[i]}, Len(frame))

\* line 54: mask.filter(pl.col(self.condition.name))
filterNone(frame, column) == frame
filter(frame, column) ==
    RowsAt(frame, {i \in 1..Len(frame) : frame[i][column]}, Len(frame))

TriggerIdle ==
    /\ trigger_event = [sinkable |-> FALSE]
    /\ trigger_df = <<>>
    /\ trigger_stream = <<>>
    /\ trigger_done = {"idle"}

\* a trigger on an event that is sinkable or not, and a frame of any rows
TriggerStart ==
    /\ trigger_event \in [sinkable : BOOLEAN]
    /\ \E n \in 0..MaxFrame : trigger_df \in [1..n -> FrameRows]
    /\ trigger_stream = <<>>
    /\ trigger_done = {}

\* check_pandas(df, result), lines 24-43
CheckPandas ==
    /\ "check_pandas" \notin trigger_done
    /\ "idle" \notin trigger_done
    /\ IF ~trigger_event.sinkable
       THEN UNCHANGED trigger_stream
       ELSE LET mask == transform_pandas(trigger_df)
            IN IF \E i \in 1..Len(mask) : mask[i]
               THEN LET events == loc(select(trigger_df, trigger_features), mask)
                    IN trigger_stream' =
                         Append(trigger_stream,
                                [by |-> "check_pandas", events |-> events])
               ELSE UNCHANGED trigger_stream
    /\ trigger_done' = trigger_done \cup {"check_pandas"}
    /\ UNCHANGED <<trigger_event, trigger_df>>
    /\ UNCHANGED <<factsVars, dslVars, psqlVars, nodeVars, litVars, planVars,
                   extractVars, serverVars, chainVars>>

\* check_polars(df, result), lines 45-67
CheckPolars ==
    /\ "check_polars" \notin trigger_done
    /\ "idle" \notin trigger_done
    /\ IF ~trigger_event.sinkable
       THEN UNCHANGED trigger_stream
       ELSE LET mask == filter(transform_polars(trigger_df, ConditionName),
                               ConditionName)
                triggers == mask
            IN IF Len(triggers) > 0
               THEN LET events == select(mask, trigger_features)
                    IN trigger_stream' =
                         Append(trigger_stream,
                                [by |-> "check_polars", events |-> events])
               ELSE UNCHANGED trigger_stream
    /\ trigger_done' = trigger_done \cup {"check_polars"}
    /\ UNCHANGED <<trigger_event, trigger_df>>
    /\ UNCHANGED <<factsVars, dslVars, psqlVars, nodeVars, litVars, planVars,
                   extractVars, serverVars, chainVars>>

NextTrigger ==
    \/ CheckPandas
    \/ CheckPolars

-----------------------------------------------------------------------------
(* FastAPIServer.model_path: src/aladdin/server.py *)

\* how many POSTs a server handles
MaxPosts == 2

EntityNames == {"user_id", "item_id"}
FeatureNames == {"price", "rating"}

\* a needed request is a RetrivalRequest or a list of them (line 18)
NeededRequests ==
    [type : {"RetrivalRequest", "list"},
     entities : SUBSET EntityNames \ {{}},
     all_required_features : SUBSET FeatureNames]

NoRoutes == [registered |-> "no", entities |-> {}, required_features |-> {}]

NoPost == [path |-> "", body |-> {}]

NoResponse == [status_code |-> 0, detail |-> {}]

\* lines 12-14: the entities of every needed request; a list has no
\* attribute entities
entities(needed_requests) ==
    UNION {needed_requests[k].entities : k \in 1..Len(needed_requests)}

\* lines 16-22: the entities and the required features of every needed request
required_features(needed_requests) ==
    entities(needed_requests)
        \cup UNION {needed_requests[k].all_required_features :
                       k \in 1..Len(needed_requests)}

\* lines 66 and 76: the names that are not a key of the body
missingWhenEmpty(names, body) == IF names \cap body = {} THEN names ELSE {}
missing(names, body) == {name_ \in names : name_ \notin body}

ServerIdle ==
    /\ server_requests = <<>>
    /\ server_routes = NoRoutes
    /\ server_last = NoPost
    /\ server_response = NoResponse
    /\ server_calls = [features_for |-> 0, write |-> 0]
    /\ server_posts = 0

\* a feature store with one model, before model_path() is called for it
ServerStart ==
    /\ \E n \in 1..2 : server_requests \in [1..n -> NeededRequests]
    /\ server_routes = NoRoutes
    /\ server_last = NoPost
    /\ server_response = NoResponse
    /\ server_calls = [features_for |-> 0, write |-> 0]
    /\ server_posts = 0

\* model_path(name, feature_store, app), lines 9-80: the two routes are added;
\* request.entities of a list raises AttributeError at line 14
ModelPath ==
    /\ server_routes.registered = "no"
    /\ server_requests # <<>>
    /\ server_routes' =
         IF \E k \in 1..Len(server_requests) : server_requests[k].type = "list"
         THEN [NoRoutes EXCEPT !.registered = "AttributeError"]
         ELSE [registered |-> "yes",
               entities |-> entities(server_requests),
               required_features |-> required_features(server_requests)]
    /\ UNCHANGED <<server_requests, server_last, server_response, server_calls,
                   server_posts>>
    /\ UNCHANGED <<factsVars, dslVars, psqlVars, nodeVars, litVars, planVars,
                   extractVars, triggerVars, chainVars>>

\* POST /{name}: get_model(entity_values), lines 64-72
GetModel ==
    /\ server_routes.registered = "yes"
    /\ server_posts < MaxPosts
    /\ \E entity_values \in SUBSET (EntityNames \cup FeatureNames) :
         LET missing_entities == missing(server_routes.entities, entity_values)
         IN /\ server_last' = [path |-> "/name", body |-> entity_values]
            /\ IF missing_entities # {}
               THEN /\ server_response' = [status_code |-> 400,
                                           detail |-> missing_entities]
                    /\ UNCHANGED server_calls
               ELSE /\ server_response' = [status_code |-> 200, detail |-> {}]
                    /\ server_calls' =
                         [server_calls EXCEPT !.features_for = @ + 1]
    /\ server_posts' = server_posts + 1
    /\ UNCHANGED <<server_requests, server_routes>>
    /\ UNCHANGED <<factsVars, dslVars, psqlVars, nodeVars, litVars, planVars,
                   extractVars, triggerVars, chainVars>>

\* POST /{name}/write: write_model(feature_values), lines 74-80
WriteModel ==
    /\ server_routes.registered = "yes"
    /\ server_posts < MaxPosts
    /\ \E feature_values \in SUBSET (EntityNames \cup FeatureNames) :
         LET missing_features == missing(server_routes.required_features,
                                         feature_values)
         IN /\ server_last' = [path |-> "/name/write", body |-> feature_values]
            /\ IF missing_features # {}
               THEN /\ server_response' = [status_code |-> 400,
                                           detail |-> missing_features]
                    /\ UNCHANGED server_calls
               ELSE /\ server_response' = [status_code |-> 200, detail |-> {}]
                    /\ server_calls' = [server_calls EXCEPT !.write = @ + 1]
    /\ server_posts' = server_posts + 1
    /\ UNCHANGED <<server_requests, server_routes>>
    /\ UNCHANGED <<factsVars, dslVars, psqlVars, nodeVars, litVars, planVars,
                   extractVars, triggerVars, chainVars>>

NextServer ==
    \/ ModelPath
    \/ GetModel
    \/ WriteModel

-----------------------------------------------------------------------------
(* Target.send_ground_truth_event, listen_to_ground_truth_event: *)
(* src/aligned/compiler/feature_factory.py                        *)

\* how many calls are chained on a target
MaxCalls == 3

Streams == {"stream_a", "stream_b"}

NoEventTrigger == [condition |-> None, event |-> None]

\* EventTrigger(when, sink_to)
EventTrigger(when, sink_to) == [condition |-> when.name, event |-> sink_to]

\* lines 92-98: the dataclass constructor, _name and _location default to None
Target(feature, event_trigger, ground_truth_event) ==
    [feature |-> feature,
     event_trigger |-> event_trigger,
     ground_truth_event |-> ground_truth_event,
     _name |-> None,
     _location |-> None]

\* lines 110-115
listen_to_ground_truth_event(self, stream) ==
    Target(self.feature, self.event_trigger, stream)

\* lines 117-120, the assert apart
send_ground_truth_event(self, when, sink_to) ==
    Target(self.feature, EventTrigger(when, sink_to), None)

ChainIdle ==
    /\ chain_target = Target(None, NoEventTrigger, None)
    /\ chain_carried = [_name |-> None, _location |-> None]
    /\ chain_calls = <<>>
    /\ chain_error = "idle"

\* Target(feature) as a classification or regression target returns it, with
\* or without a name and a location
ChainStart ==
    /\ \E n \in {None, "label"}, l \in {None, "model:m"} :
         /\ chain_target =
              [Target("feature", NoEventTrigger, None)
                  EXCEPT !._name = n, !._location = l]
         /\ chain_carried = [_name |-> n, _location |-> l]
    /\ chain_calls = <<>>
    /\ chain_error = None

\* __set_name__(owner, name), lines 100-101
ChainSetName ==
    /\ chain_error # "idle"
    /\ Len(chain_calls) < MaxCalls
    /\ chain_target' = [chain_target EXCEPT !._name = "label"]
    /\ chain_carried' = [chain_carried EXCEPT !._name = "label"]
    /\ chain_calls' = Append(chain_calls, "__set_name__")
    /\ chain_error' = None
    /\ UNCHANGED <<factsVars, dslVars, psqlVars, nodeVars, litVars, planVars,
                   extractVars, triggerVars, serverVars>>

\* target.listen_to_ground_truth_event(stream)
ListenToGroundTruthEvent ==
    /\ chain_error # "idle"
    /\ Len(chain_calls) < MaxCalls
    /\ \E stream \in Streams :
         chain_target' = listen_to_ground_truth_event(chain_target, stream)
    /\ chain_calls' = Append(chain_calls, "listen_to_ground_truth_event")
    /\ chain_error' = None
    /\ UNCHANGED chain_carried
    /\ UNCHANGED <<factsVars, dslVars, psqlVars, nodeVars, litVars, planVars,
                   extractVars, triggerVars, serverVars>>

\* target.send_ground_truth_event(when, sink_to): the assert of line 118
\* fails for a condition that is not a boolean
SendGroundTruthEvent ==
    /\ chain_error # "idle"
    /\ Len(chain_calls) < MaxCalls
    /\ \E when \in [name : {"is_done"}, dtype : {"bool", "int32"}], sink_to \in Streams :
         IF when.dtype # "bool"
         THEN /\ chain_error' = "AssertionError"
              /\ UNCHANGED <<chain_target, chain_calls>>
         ELSE /\ chain_target' = send_ground_truth_event(chain_target, when, sink_to)
              /\ chain_calls' = Append(chain_calls, "send_ground_truth_event")
              /\ chain_error' = None
    /\ UNCHANGED chain_carried
    /\ UNCHANGED <<factsVars, dslVars, psqlVars, nodeVars, litVars, planVars,
                   extractVars, triggerVars, serverVars>>

NextChain ==
    \/ ChainSetName
    \/ ListenToGroundTruthEvent
    \/ SendGroundTruthEvent

NextFacts ==
    \/ FactsSkip
    \/ FactsRaise
    \/ FactsGroup
    \/ FactsLoopEnd
    \/ FactsJob
    \/ FactsReturn
    \/ FactsAgain

\* the csv factory with csv files and sources of another kind
Init ==
    /\ FactsStart(CsvFileSources) /\ DslIdle /\ PsqlIdle /\ NodeIdle
    /\ LiteralIdle /\ PlanIdle /\ ExtractIdle /\ TriggerIdle /\ ServerIdle
    /\ ChainIdle

Next == NextFacts

Spec == Init /\ [][Next]_vars

\* the csv factory when sources with LiteralReference's key are among the sources
InitKeys ==
    /\ FactsStart({s \in CsvFileSources : s.mapping_keys = 0} \cup LiteralReferences)
    /\ DslIdle
    /\ PsqlIdle
    /\ NodeIdle
    /\ LiteralIdle
    /\ PlanIdle
    /\ ExtractIdle
    /\ TriggerIdle
    /\ ServerIdle
    /\ ChainIdle

SpecKeys == InitKeys /\ [][Next]_vars

\* JobFactory.facts before any call
FactsIdle ==
    /\ kind = "csv"
    /\ facts = EmptyDict
    /\ sources = <<>>
    /\ requests = EmptyDict
    /\ pc = "idle"
    /\ idx = 0
    /\ grouped_requests = <<>>
    /\ grouped_facts = EmptyDict
    /\ jobs = <<>>
    /\ result = NoJob
    /\ calls = 0
    /\ previous = NoOutcome

\* the feature DSL: features are declared, combined, named and compiled
InitDsl ==
    /\ FactsIdle /\ DslIdle /\ PsqlIdle /\ NodeIdle /\ LiteralIdle
    /\ PlanIdle /\ ExtractIdle /\ TriggerIdle /\ ServerIdle /\ ChainIdle

SpecDsl == InitDsl /\ [][NextDsl]_vars

\* the point-in-time planner: a query is built and the database runs it
InitPsql ==
    /\ FactsIdle /\ DslIdle /\ PsqlStart /\ NodeIdle /\ LiteralIdle
    /\ PlanIdle /\ ExtractIdle /\ TriggerIdle /\ ServerIdle /\ ChainIdle

SpecPsql == InitPsql /\ [][NextPsql]_vars

\* one feature of a view and the target of a model: named, constrained,
\* referenced and turned into a Feature in any order
InitNode ==
    /\ FactsIdle /\ DslIdle /\ PsqlIdle /\ NodeIdle /\ LiteralIdle
    /\ PlanIdle /\ ExtractIdle /\ TriggerIdle /\ ServerIdle /\ ChainIdle

SpecNode == InitNode /\ [][NextNode]_vars

\* a value is turned into a literal and serialized; callers then ask for the
\* registry, directly or to deserialize the dict
InitLiteral ==
    /\ FactsIdle /\ DslIdle /\ PsqlIdle /\ NodeIdle /\ LiteralStart
    /\ PlanIdle /\ ExtractIdle /\ TriggerIdle /\ ServerIdle /\ ChainIdle

SpecLiteral == InitLiteral /\ [][NextLiteral]_vars

\* the planner over several requests: the query is built and the database runs it
InitPlan ==
    /\ FactsIdle /\ DslIdle /\ PsqlIdle /\ NodeIdle /\ LiteralIdle
    /\ PlanStart /\ ExtractIdle /\ TriggerIdle /\ ServerIdle /\ ChainIdle

SpecPlan == InitPlan /\ [][NextPlan]_vars

\* the jobs that read a whole source or a date range of it
InitExtract ==
    /\ FactsIdle /\ DslIdle /\ PsqlIdle /\ NodeIdle /\ LiteralIdle
    /\ PlanIdle /\ ExtractStart /\ TriggerIdle /\ ServerIdle /\ ChainIdle

SpecExtract == InitExtract /\ [][NextExtract]_vars

\* an event trigger: the same frame is checked with pandas and with polars
InitTrigger ==
    /\ FactsIdle /\ DslIdle /\ PsqlIdle /\ NodeIdle /\ LiteralIdle
    /\ PlanIdle /\ ExtractIdle /\ TriggerStart
    /\ ServerIdle
    /\ ChainIdle

SpecTrigger == InitTrigger /\ [][NextTrigger]_vars

\* the server of one model: its routes are added, then POSTs arrive
InitServer ==
    /\ FactsIdle /\ DslIdle /\ PsqlIdle /\ NodeIdle /\ LiteralIdle
    /\ PlanIdle /\ ExtractIdle /\ TriggerIdle /\ ServerStart
    /\ ChainIdle

SpecServer == InitServer /\ [][NextServer]_vars

\* a target of a model: calls are chained on it
InitChain ==
    /\ FactsIdle /\ DslIdle /\ PsqlIdle /\ NodeIdle /\ LiteralIdle
    /\ PlanIdle /\ ExtractIdle /\ TriggerIdle /\ ServerIdle /\ ChainStart

SpecChain == InitChain /\ [][NextChain]_vars

-----------------------------------------------------------------------------
(* Claims about JobFactory.facts *)

\* the sources of the call that are of the factory's kind
OfFactoryKind == {s \in Range(sources) : s.type_name = kind}

\* the positions in grouped_requests of the groups holding data_source
GroupsOf(data_source) ==
    {i \in 1..Len(grouped_requests) :
        \E j \in 1..Len(grouped_requests[i].requests) :
            grouped_requests[i].requests[j].source = data_source}

\* the entity names a request leaves without a column in facts
Missing(data_source) == requests[data_source] \ DOMAIN facts

\* C2: once the loop of facts() is over, every source of the factory's kind is
\* in exactly one group (and once in it), two such sources share a group if and
\* only if their job_group_key() values are equal, and a source of another kind
\* is in no group.
C2_GroupedByKey ==
    pc \in {"jobs", "done"} =>
        /\ \A s \in OfFactoryKind :
             /\ Cardinality(GroupsOf(s)) = 1
             /\ \A i \in GroupsOf(s) :
                  Cardinality({j \in 1..Len(grouped_requests[i].requests) :
                                 grouped_requests[i].requests[j].source = s}) = 1
        /\ \A s1, s2 \in OfFactoryKind :
             (GroupsOf(s1) = GroupsOf(s2)) <=> (job_group_key(s1) = job_group_key(s2))
        /\ \A s \in Range(sources) \ OfFactoryKind : GroupsOf(s) = {}

\* C2 witness: facts() returned with two groups, one of them holding two sources
C2_Witness ==
    /\ pc = "done"
    /\ Len(grouped_requests) = 2
    /\ \E i \in 1..2 : Len(grouped_requests[i].requests) = 2

C4_GroupFacts ==
    \A i \in 1..Len(jobs) :
        LET named == UNION {jobs[i].requests[j].request :
                              j \in 1..Len(jobs[i].requests)}
        IN /\ DOMAIN jobs[i].facts = named
           /\ \A e \in named : jobs[i].facts[e] = facts[e]

\* C4 witness: two _facts calls, one for a group of two sources whose requests
\* name different entities, the other with fewer columns
C4_Witness ==
    /\ pc = "done"
    /\ \E i, k \in 1..Len(jobs) :
         /\ Len(jobs[i].requests) = 2
         /\ jobs[i].requests[1].request # jobs[i].requests[2].request
         /\ DOMAIN jobs[k].facts # DOMAIN jobs[i].facts

\* C5: when a request of a source of the factory's kind names an entity that
\* is no column of facts, facts() gets no further than that source: it raises
\* there, with no _facts call made and no job returned; it raises for no other
\* reason, so a missing entity in a request of another kind is not a failure.
C5_MissingEntityRaises ==
    /\ (\E s \in OfFactoryKind : Missing(s) # {}) =>
           /\ pc \in {"loop", "raised"}
           /\ jobs = <<>>
           /\ ~result.returned
    /\ pc = "loop" =>
           \A i \in 1..(idx - 1) :
               sources[i].type_name = kind => Missing(sources[i]) = {}
    /\ pc = "raised" =>
           /\ sources[idx].type_name = kind
           /\ Missing(sources[idx]) # {}
           /\ jobs = <<>>
           /\ ~result.returned

\* C5 witness: the call raised at a source of the factory's kind after it had
\* passed a source of another kind whose request names a missing entity
C5_Witness ==
    /\ pc = "raised"
    /\ \E i \in 1..(idx - 1) :
         sources[i].type_name # kind /\ Missing(sources[i]) # {}

\* C6: facts() returns a CombineFactualJob with exactly one job per group, that
\* is one _facts call per distinct job_group_key() of the sources of the
\* factory's kind, each job holding the sources of one key, and the requests
\* the combine job declares are the requests of all the groups.
C6_OneJobPerGroup ==
    pc = "done" =>
        /\ result.returned
        /\ result.jobs = jobs
        /\ Len(result.jobs) = Cardinality({job_group_key(s) : s \in OfFactoryKind})
        /\ \A i \in 1..Len(result.jobs) :
             \E s \in OfFactoryKind :
                {result.jobs[i].requests[j].source :
                    j \in 1..Len(result.jobs[i].requests)}
                  = {s2 \in OfFactoryKind : job_group_key(s2) = job_group_key(s)}
        /\ CombineRequests(result)
             = {[source |-> s, request |-> requests[s]] : s \in OfFactoryKind}

\* C6 witness: a combine job of two jobs was returned for three sources
C6_Witness ==
    /\ pc = "done"
    /\ Len(result.jobs) = 2
    /\ Cardinality(OfFactoryKind) = 3

-----------------------------------------------------------------------------
(* Claims about the feature DSL *)

Max(S) == CHOOSE x \in S : \A y \in S : y <= x

\* the nodes a node uses directly
Operands(n) == Range(nodes[n].transformation.using_features)

\* the nodes reached from n along the using_features edges
RECURSIVE ReachedIn(_, _)
ReachedIn(S, k) ==
    IF k = 0 THEN S ELSE ReachedIn(S \cup UNION {Operands(m) : m \in S}, k - 1)
Reached(n) == ReachedIn(Operands(n), Len(nodes))

\* the depth the rule of the data model gives node n, from the depth() of its operands
DepthByRule(n) ==
    IF nodes[n].transformation = NoTransformation THEN 0
    ELSE LET below == {Depth(nodes, m) : m \in Operands(n)}
         IN IF RecursionError \in below THEN RecursionError ELSE 1 + Max(below)

\* C7: on every node depth() ends as the rule says: 0 without a transformation,
\* otherwise 1 + the largest depth() of the nodes in using_features (and like
\* them it does not return when one of them does not); a DerivedFeature that
\* compile() returns carries that depth.
C7_DepthRule ==
    /\ \A n \in 1..Len(nodes) : Depth(nodes, n) = DepthByRule(n)
    /\ compiled.status = "DerivedFeature" =>
           /\ compiled.depth = DepthByRule(compiled.node)
           /\ compiled.depth >= 1

\* C7 witness: compile() returned a DerivedFeature of depth 2 whose operands
\* have the depths 1 and 0, in this order
C7_Witness ==
    /\ compiled.status = "DerivedFeature"
    /\ compiled.depth = 2
    /\ LET using == nodes[compiled.node].transformation.using_features
       IN /\ Len(using) = 2
          /\ Depth(nodes, using[1]) = 1
          /\ Depth(nodes, using[2]) = 0

\* C8: after any sequence of DSL operations no node reaches itself along the
\* using_features edges, so depth() returns on every node.
C8_Acyclic ==
    \A n \in 1..Len(nodes) :
        /\ n \notin Reached(n)
        /\ Depth(nodes, n) # RecursionError

\* C9: compile() returns a DerivedFeature only on a node that has a
\* transformation and a name; on a node without a transformation it fails, on
\* a node with a transformation and no name it fails, and a failed call
\* produces no DerivedFeature.
C9_CompileNeedsTransformationAndName ==
    compiled.status # "none" =>
        LET node == nodes[compiled.node]
        IN /\ compiled.status = "DerivedFeature" =>
                 /\ node.transformation # NoTransformation
                 /\ node._name # None
                 /\ compiled.name = node._name
           /\ node.transformation = NoTransformation => compiled.status = "ValueError"
           /\ node._name = None => compiled.status = "ValueError"
           /\ compiled.status # "DerivedFeature" =>
                 /\ compiled.name = None
                 /\ compiled.depending_on = <<>>

\* C9 witness: compile() failed on a node that has a transformation and no name
C9_Witness ==
    /\ compiled.status = "ValueError"
    /\ nodes[compiled.node].transformation # NoTransformation
    /\ nodes[compiled.node]._name = None

\* C10: compile() on a named node whose transformation has a direct operand
\* without a name succeeds and returns a DerivedFeature with one reference per
\* operand.
C10_UnnamedOperandCompiles ==
    (/\ compiled.status # "none"
     /\ nodes[compiled.node]._name # None
     /\ nodes[compiled.node].transformation # NoTransformation
     /\ \E m \in Operands(compiled.node) : nodes[m]._name = None
     /\ \A m \in Operands(compiled.node) : m # compiled.node)
        => /\ compiled.status = "DerivedFeature"
           /\ Len(compiled.depending_on)
                = Len(nodes[compiled.node].transformation.using_features)

\* a step of an operation that attaches a transformation: some node has a
\* transformation it did not have before
AttachesTransformation ==
    \E i \in 1..Len(nodes') :
        /\ nodes'[i].transformation # NoTransformation
        /\ i > Len(nodes) \/ nodes'[i].transformation # nodes[i].transformation

\* C12: every transformation-producing operation returns a newly allocated
\* node without a name, distinct from the receiver and from every argument,
\* and leaves every node that existed before as it was.
C12_OperationsAllocate ==
    [][AttachesTransformation =>
          /\ Len(nodes') = Len(nodes) + 1
          /\ nodes'[Len(nodes')]._name = None
          /\ \A i \in 1..Len(nodes) : nodes'[i] = nodes[i]]_vars

-----------------------------------------------------------------------------
(* Claims about FactPsqlJob *)

\* the timestamps of the observations the source holds for entity e
ObservedAt(e) == {ta.ts : ta \in {r \in source_table : r.user_id = e}}

\* C1: for a fact row requesting entity e at event timestamp t and a source
\* holding observations of e at t-2, t-1 and t+1, the per-source CTE selects
\* the observation of e at t-1 for that row, and never the one at t+1.
C1_AsOfJoin ==
    (psql_pc = "executed" /\ psql_request.event_timestamp) =>
        \A i \in 1..Len(fact_rows) :
            LET e == fact_rows[i].user_id
                t == fact_rows[i].event_timestamp
            IN ObservedAt(e) = {t - 2, t - 1, t + 1} =>
                   cte_rows[i] = [user_id |-> e, ts |-> t - 1]

\* the same for the rows whose entity value is written into the VALUES list
\* as it is: the row selected is the latest observation not after t
AsOfJoinOfRenderedRows ==
    (psql_pc = "executed" /\ psql_request.event_timestamp) =>
        \A i \in 1..Len(fact_rows) :
            LET e == fact_rows[i].user_id
                t == fact_rows[i].event_timestamp
                notAfter == {s \in ObservedAt(e) : s <= t}
            IN e # 0 =>
                 /\ notAfter # {} => cte_rows[i] = [user_id |-> e, ts |-> Max(notAfter)]
                 /\ notAfter = {} => cte_rows[i] = NoRow

\* the SQL type the claims name for a declared dtype
SqlTypeOfDtype ==
    [dtype \in EntityDtypes |->
        IF dtype \in {"int32", "int64"} THEN "integer" ELSE "text"]

\* C21: the entities CTE built from a fact table of n rows has exactly n VALUES
\* rows, row i carries the row_id i, and every cell is cast to the SQL type of
\* its column: integer for an int32 or int64 entity and for row_id, the type of
\* the declared dtype otherwise, a timestamp for a declared event timestamp.
C21_EntitiesCte ==
    psql_pc \in {"built", "executed"} =>
        /\ Len(query.values) = Len(fact_rows)
        /\ \A i \in 1..Len(fact_rows) : query.values[i].row_id = i
        /\ query.dtypes.row_id = "integer"
        /\ query.dtypes.user_id = SqlTypeOfDtype[psql_request.entity_dtype]
        /\ psql_request.event_timestamp =>
              query.dtypes.event_timestamp = "TIMESTAMP WITH TIME ZONE"

\* C21 witness: the entities CTE of a fact table of two rows with an int64
\* entity was built
C21_Witness ==
    /\ psql_pc = "built"
    /\ Len(fact_rows) = 2
    /\ fact_rows[1].user_id = 1
    /\ psql_request.entity_dtype = "int64"
    /\ Len(query.values) = 2

\* C26: a cell of the fact table is written as null exactly when its value is
\* missing; the value 0 is written as a literal.
C26_NullIffMissing ==
    psql_pc \in {"built", "executed"} =>
        \A i \in 1..Len(fact_rows) :
            (query.values[i].user_id = NULL) <=> (fact_rows[i].user_id = NULL)

-----------------------------------------------------------------------------
(* Claims about one FeatureFactory *)

\* C11: feature_referance(), of a FeatureFactory and of a Target, never returns
\* a FeatureReferance with an unset name or an unset location: it fails while
\* either has not been assigned.
C11_ReferenceIsBound ==
    (reference.of # "none" /\ ~reference.raised) =>
        (reference.name # None /\ reference.location # None)

\* C13: the constraints of a node are accumulated additively and idempotently:
\* a call adds at most its own constraint and removes none, and a call with
\* the arguments of an earlier one leaves the set as it is.
C13_ConstraintsAccumulate ==
    /\ [](\A c \in set_object :
            _add_constraint([constraints |-> factory.constraints,
                             content |-> set_object], c).content = set_object)
    /\ [][set_object' # set_object =>
             /\ set_object \subseteq set_object'
             /\ \E c \in Constraints : set_object' = set_object \cup {c}]_vars

\* C13 witness: calls with different constraints were made
C13_Witness ==
    /\ Cardinality(set_object) = MaxConstraints
    /\ factory.constraints = "set"

\* the fields of the Feature as a reader of the object sees them
FeatureFields ==
    [name |-> ir.name, dtype |-> ir.dtype, description |-> ir.description,
     has_constraints |-> ir.constraints # None,
     constraints |-> IF ir.constraints = None THEN {} ELSE set_object]

\* C14: a Feature obtained from feature() is immutable: no later operation on
\* the node it came from changes any of its fields, its constraints included.
C14_FeatureImmutable ==
    [][(ir.status = "Feature" /\ ir' = ir) => FeatureFields' = FeatureFields]_vars

-----------------------------------------------------------------------------
(* Claims about literal values *)

\* from_value was called and has ended
FromValueEnded == lit_pc \in {"made", "raised", "serialized"}

\* the tag that belongs to a runtime type
TagOf(type) ==
    CASE type = "int" -> "int"
      [] type = "float" -> "float"
      [] type = "bool" -> "bool"
      [] type = "date" -> "date"
      [] type = "datetime" -> "datetime"
      [] type = "str" -> "string"
      [] type = "list" -> "array"
      [] OTHER -> "none"

\* the runtime types inside a value that are none of the seven kinds
RECURSIVE UnmodeledTypes(_)
UnmodeledTypes(value) ==
    (IF TagOf(value.type) = "none" THEN {value.type} ELSE {})
        \cup UNION {UnmodeledTypes(value.items[i]) : i \in 1..Len(value.items)}

\* lit is tagged with the kind of value, and so are its elements
RECURSIVE Classified(_, _)
Classified(value, lit) ==
    /\ lit.name = TagOf(value.type)
    /\ value.type = "list" =>
          /\ Len(lit.items) = Len(value.items)
          /\ \A i \in 1..Len(value.items) : Classified(value.items[i], lit.items[i])

\* C16: from_value checks bool before int: for a boolean input it returns the
\* literal tagged 'bool', never the one tagged 'int'.
C16_BoolBeforeInt ==
    (FromValueEnded /\ py_value.type = "bool") => literal.name = "bool"

\* C17: for an input of one of the seven supported kinds the tag of the
\* literal returned is the kind of the input (datetime gives 'datetime', not
\* 'date'), and the elements of a list are classified by the same rule.
C17_TagIsKind ==
    (FromValueEnded /\ UnmodeledTypes(py_value) = {}) => Classified(py_value, literal)

\* C18: deserializing the serialized form of a literal yields a literal equal
\* to it: the form carries the tag under 'name' and _deserialize finds the
\* constructor of that tag in the registry.
C18_RoundTrip ==
    \A t \in Threads :
        (threads[t].call = "_deserialize" /\ threads[t].pc \in {"returned", "raised"}) =>
            /\ serialized.name = literal.name
            /\ threads[t].result = "literal"
            /\ threads[t].returned = literal

\* C19: from_value on a value of a type that is none of the seven kinds, also
\* as an element of a list, fails with an error naming that type and returns
\* no literal.
C19_UnmodeledTypeRaises ==
    (FromValueEnded /\ UnmodeledTypes(py_value) # {}) =>
        /\ lit_pc = "raised"
        /\ literal.name = "ValueError"
        /\ literal.type \in UnmodeledTypes(py_value)

\* C19 witness: from_value failed on a list of two elements
C19_Witness ==
    /\ lit_pc = "raised"
    /\ py_value.type = "list"
    /\ Len(py_value.items) = 2
    /\ literal.type = "dict"

\* C20: under any interleaving of callers of shared() and _deserialize the
\* registry is built at most once, every caller gets the one registry with
\* the seven tags, and it does not change afterwards.
C20_OneRegistry ==
    \A t \in Threads :
        threads[t].pc \in {"returned", "raised"} =>
            /\ threads[t].pc = "returned"
            /\ _shared # None
            /\ _shared.values = SupportedTags

-----------------------------------------------------------------------------
(* Claims about FactPsqlJob over several requests *)

\* C22: the query defines exactly one CTE for each request, named after the
\* location of the request, and the final SELECT joins exactly the CTEs that
\* are defined: none that no request produced, and none is left out.
C22_JoinsAreTheCtes ==
    plan_pc \in {"built", "executed"} =>
        /\ Len(plan_query.ctes) = Len(plan_requests)
        /\ \A k \in 1..Len(plan_requests) : plan_query.ctes[k] = plan_requests[k]
        /\ Range(plan_query.joins) = Range(plan_query.ctes)
        /\ Len(plan_query.joins) = Len(plan_query.ctes)

\* the joins are the CTEs when every source of the job has a request
JoinsAreTheCtesOfRequestedSources ==
    (plan_pc \in {"built", "executed"} /\ Range(plan_sources) = Range(plan_requests)) =>
        /\ Range(plan_query.joins) = Range(plan_query.ctes)
        /\ Len(plan_query.joins) = Len(plan_query.ctes)
        /\ plan_pc = "executed" => plan_result.status = "rows"

\* C27: the result of the query has exactly one row for each row of the fact
\* table, whether a requested source holds zero, one or many observations
\* that satisfy the join of that row.
C27_OneRowPerFactRow ==
    (plan_pc = "executed" /\ plan_result.status = "rows") =>
        /\ Len(plan_result.rows) = plan_facts.rows
        /\ \A row_id \in 1..plan_facts.rows : plan_result.rows[row_id] = 1

\* C27 witness: two requested sources, two fact rows; one source has no
\* observation for the first row and many for the second, the other has one
C27_Witness ==
    /\ plan_pc = "executed"
    /\ plan_result.status = "rows"
    /\ Len(plan_requests) = 2
    /\ plan_facts.rows = 2
    /\ plan_matches[1][1] = 0 /\ plan_matches[1][2] = 2
    /\ plan_matches[2][1] = 1
    /\ plan_result.rows = <<1, 1>>

-----------------------------------------------------------------------------
(* Claims about the select lists and the extract jobs *)

\* the physical column the source has for a logical name
PhysicalOf(logical) ==
    IF logical \in DOMAIN extract_mapping THEN extract_mapping[logical] ELSE logical

\* C23: in every select list that is built (full extract, date range, CTE of
\* a source), the column of a logical name is '<physical> AS <logical>' when
\* its physical name differs and the bare name otherwise, the physical name
\* being the one the source has for that same logical name.
C23_AliasWhenNamesDiffer ==
    extract_locals # NoLocals =>
        /\ Len(extract_locals.columns) = Len(extract_request.all_features)
        /\ \A k \in 1..Len(extract_request.all_features) :
             LET logical == extract_request.all_features[k]
             IN extract_locals.columns[k] =
                  IF PhysicalOf(logical) # logical
                  THEN [expr |-> PhysicalOf(logical), as |-> logical]
                  ELSE [expr |-> logical, as |-> None]

\* C23 witness: a select list with an aliased and a bare column was built
C23_Witness ==
    /\ extract_pc = "returned"
    /\ extract_job.type = "DateRangePsqlJob"
    /\ extract_request.all_features = <<"user_id", "price">>
    /\ extract_locals.columns =
         <<[expr |-> "user_id", as |-> None], [expr |-> "amount", as |-> "price"]>>

\* the rows of the source table from start_date to end_date, both included
RowsInRange ==
    {ts \in extract_table : extract_job.start_date <= ts /\ ts <= extract_job.end_date}

\* C24: a date range job whose request has no event timestamp raises in
\* build_request() and no PostgreSqlJob is made; with an event timestamp the
\* query keeps exactly the rows from start_date to end_date, both included.
C24_DateRange ==
    extract_job.type = "DateRangePsqlJob" =>
        /\ (~extract_request.event_timestamp /\ extract_pc # "start") =>
              /\ extract_returned.type = "ValueError"
              /\ ~extract_psql_job.made
        /\ (extract_request.event_timestamp /\ extract_pc = "executed") =>
              /\ extract_rows.status = "rows"
              /\ extract_rows.rows = RowsInRange

\* the first half of C24, and the second half for dates of whole seconds
DateRangeRaisesWithoutEventTimestamp ==
    (extract_job.type = "DateRangePsqlJob" /\ ~extract_request.event_timestamp
        /\ extract_pc # "start") =>
        /\ extract_returned.type = "ValueError"
        /\ ~extract_psql_job.made
        /\ extract_pc = "raised"

DateRangeOfWholeSeconds ==
    (extract_job.type = "DateRangePsqlJob" /\ extract_pc = "executed"
        /\ extract_job.start_date % 2 = 0 /\ extract_job.end_date % 2 = 0) =>
        extract_rows = [status |-> "rows", rows |-> RowsInRange]

\* C25: build_request() of a full extract returns the text of a query over
\* all features and entities of the request, capped at n rows for limit n and
\* not capped without a limit, and the job made by psql_job() carries it.
C25_FullExtract ==
    (extract_job.type = "FullExtractPsqlJob" /\ extract_pc # "start") =>
        /\ extract_returned.type = "str"
        /\ Len(extract_returned.columns) = Len(extract_request.all_features)
        /\ extract_returned.limit = extract_job.limit
        /\ extract_psql_job.made => extract_psql_job.query = extract_returned

-----------------------------------------------------------------------------
(* Claims about EventTrigger *)

\* the jobs a check wrote to the event stream
WrittenBy(check) ==
    {k \in 1..Len(trigger_stream) : trigger_stream[k].by = check}

\* the rows of the frame that satisfy the condition, with the entity and
\* payload columns only
SatisfyingRows ==
    LET Satisfying(n) == {i \in 1..n : trigger_df[i].x = 1}
    IN [k \in 1..Cardinality(Satisfying(Len(trigger_df))) |->
          LET i == CHOOSE j \in Satisfying(Len(trigger_df)) :
                       Cardinality(Satisfying(j)) = k
          IN [id |-> trigger_df[i].id, p |-> trigger_df[i].p]]

\* C28: on the same frame check_pandas and check_polars each write to the
\* event stream at most once; a check writes exactly when the event is
\* sinkable and some row satisfies the condition, and the job it writes holds
\* exactly the satisfying rows with the entity and payload columns only.
C28_ChecksAgree ==
    \A check \in trigger_done \ {"idle"} :
        /\ Cardinality(WrittenBy(check)) <= 1
        /\ (WrittenBy(check) # {}) <=>
              (trigger_event.sinkable /\ \E i \in 1..Len(trigger_df) : trigger_df[i].x = 1)
        /\ \A k \in WrittenBy(check) : trigger_stream[k].events = SatisfyingRows

\* C28 witness: both checks wrote the one satisfying row of a frame of two rows
C28_Witness ==
    /\ trigger_done = {"check_pandas", "check_polars"}
    /\ Len(trigger_df) = 2
    /\ trigger_df[1].x = 0 /\ trigger_df[2].x = 1
    /\ Len(trigger_stream) = 2
    /\ trigger_stream[1].events = trigger_stream[2].events
    /\ Len(trigger_stream[1].events) = 1

-----------------------------------------------------------------------------
(* Claims about the HTTP server *)

\* the entities of the model, and its required features with them
ModelEntities ==
    UNION {server_requests[k].entities : k \in 1..Len(server_requests)}

ModelRequired ==
    ModelEntities
        \cup UNION {server_requests[k].all_required_features :
                       k \in 1..Len(server_requests)}

\* C29: a POST to /{name} whose body lacks an entity of the model is answered
\* with status 400 and features_for is not called; a POST to /{name}/write
\* whose body lacks a required feature or entity is answered with status 400
\* and write is not called.
C29_MissingIs400 ==
    [][server_posts' # server_posts =>
          /\ (server_last'.path = "/name" /\ ~(ModelEntities \subseteq server_last'.body)) =>
                /\ server_response'.status_code = 400
                /\ server_calls' = server_calls
          /\ (server_last'.path = "/name/write"
                /\ ~(ModelRequired \subseteq server_last'.body)) =>
                /\ server_response'.status_code = 400
                /\ server_calls' = server_calls]_vars

\* a POST with nothing missing reaches the feature store
CompleteBodyIsServed ==
    [][server_posts' # server_posts =>
          /\ (server_last'.path = "/name" /\ ModelEntities \subseteq server_last'.body) =>
                server_calls'.features_for = server_calls.features_for + 1
          /\ (server_last'.path = "/name/write"
                /\ ModelRequired \subseteq server_last'.body) =>
                server_calls'.write = server_calls.write + 1]_vars

\* C29 witness: a model with two entities; the second POST, with one of them
\* in its body, was answered with 400 and the feature store was never called
C29_Witness ==
    /\ server_posts = 2
    /\ ModelEntities = {"user_id", "item_id"}
    /\ ModelRequired = {"user_id", "item_id", "price"}
    /\ server_last = [path |-> "/name", body |-> {"user_id", "price"}]
    /\ server_response = [status_code |-> 400, detail |-> {"item_id"}]
    /\ server_calls = [features_for |-> 0, write |-> 0]

-----------------------------------------------------------------------------
(* Claims about Target chaining *)

\* C30: once send_ground_truth_event and listen_to_ground_truth_event have
\* both been applied to a target, in either order, the resulting Target has an
\* event trigger and a ground-truth stream, and the name and the location the
\* target carried are still on it.
C30_ChainingIsLossless ==
    {"send_ground_truth_event", "listen_to_ground_truth_event"}
            \subseteq Range(chain_calls) =>
        /\ chain_target.event_trigger # NoEventTrigger
        /\ chain_target.ground_truth_event # None
        /\ chain_target._name = chain_carried._name
        /\ chain_target._location = chain_carried._location

\* what the two calls do keep: listening after sending leaves both the event
\* trigger and the ground-truth stream on an unnamed target
SendThenListenKeepsBoth ==
    (chain_calls = <<"send_ground_truth_event", "listen_to_ground_truth_event">>) =>
        /\ chain_target.event_trigger # NoEventTrigger
        /\ chain_target.ground_truth_event # None

====
